---------------------------- MODULE Spec2Model ----------------------------
(***************************************************************************)
(* Cursor Codespaces extension: the managed-block merge of the SSH config  *)
(* file (sshConfig.ts), the explorer's polling timer (codespaceExplorer.ts)*)
(* and the connect flow (extension.ts, ghService.ts, remoteSsh.ts).        *)
(*                                                                         *)
(* A text (the config file, a generated SSH config) is a sequence of      *)
(* tokens: a white-space character, a word, or one of the                  *)
(* two marker strings.  The markers cannot overlap themselves or each      *)
(* other ('#' occurs only as their first character), so an occurrence of   *)
(* a marker in the file is an occurrence of its token, and one token       *)
(* counts as one position.  Messages and state names are TLA+ strings.     *)
(* Both are handled as JavaScript handles strings: indices are 0-based,    *)
(* indexOf yields -1 when absent, substring clamps and swaps its ends.     *)
(***************************************************************************)
EXTENDS Integers, Sequences, FiniteSets, TLC

(***************************************************************************)
(* JavaScript string primitives                                            *)
(***************************************************************************)

\* The tokens String.prototype.trim and the regex class \s treat as white space.
WhiteSpace == {" ", "\n", "\t", "\r"}

Min(a, b) == IF a < b THEN a ELSE b

Max(a, b) == IF a < b THEN b ELSE a

\* s.substring(a, b): both ends clamped to 0..length, swapped when a > b.
Substring(s, a, b) ==
    LET ca == Max(0, Min(a, Len(s)))
        cb == Max(0, Min(b, Len(s)))
    IN  SubSeq(s, Min(ca, cb) + 1, Max(ca, cb))

\* s.substring(a)
SubstringFrom(s, a) == Substring(s, a, Len(s))

\* s.startsWith(sub, i)
StartsWithAt(s, sub, i) ==
    /\ i + Len(sub) <= Len(s)
    /\ SubSeq(s, i + 1, i + Len(sub)) = sub

\* s.indexOf(sub, i): the first position >= i where sub occurs, else -1.
IndexOfFrom(s, sub, i) ==
    LET from == Max(0, i)
        hits == {k \in from .. (Len(s) - Len(sub)) : StartsWithAt(s, sub, k)}
    IN  IF hits = {} THEN -1
        ELSE CHOOSE k \in hits : \A j \in hits : k <= j

\* s.indexOf(sub)
IndexOf(s, sub) == IndexOfFrom(s, sub, 0)

\* s.includes(sub)
Includes(s, sub) == IndexOf(s, sub) # -1

\* text.trimEnd()
TrimEnd(t) ==
    LET keep == {k \in 1 .. Len(t) : t[k] \notin WhiteSpace}
    IN  IF keep = {} THEN <<>>
        ELSE SubSeq(t, 1, CHOOSE k \in keep : \A j \in keep : j <= k)

\* text.trimStart()
TrimStart(t) ==
    LET keep == {k \in 1 .. Len(t) : t[k] \notin WhiteSpace}
    IN  IF keep = {} THEN <<>>
        ELSE SubSeq(t, CHOOSE k \in keep : \A j \in keep : k <= j, Len(t))

\* text.trim()
Trim(t) == TrimStart(TrimEnd(t))

RECURSIVE Join(_, _)
\* parts.join(sep) for an array of texts
Join(parts, sep) ==
    IF Len(parts) = 0 THEN <<>>
    ELSE IF Len(parts) = 1 THEN parts[1]
    ELSE parts[1] \o sep \o Join(Tail(parts), sep)

\* parts.filter(part => part.length > 0)
FilterNonEmpty(parts) == SelectSeq(parts, LAMBDA p : Len(p) > 0)

\* The upper-case letters and their lower-case forms.
UpperToLower ==
    [c \in {"A", "B", "C", "D", "E", "F", "G", "H", "I", "J", "K", "L", "M", "N",
            "O", "P", "Q", "R", "S", "T", "U", "V", "W", "X", "Y", "Z"} |->
        CASE c = "A" -> "a" [] c = "B" -> "b" [] c = "C" -> "c" [] c = "D" -> "d"
          [] c = "E" -> "e" [] c = "F" -> "f" [] c = "G" -> "g" [] c = "H" -> "h"
          [] c = "I" -> "i" [] c = "J" -> "j" [] c = "K" -> "k" [] c = "L" -> "l"
          [] c = "M" -> "m" [] c = "N" -> "n" [] c = "O" -> "o" [] c = "P" -> "p"
          [] c = "Q" -> "q" [] c = "R" -> "r" [] c = "S" -> "s" [] c = "T" -> "t"
          [] c = "U" -> "u" [] c = "V" -> "v" [] c = "W" -> "w" [] c = "X" -> "x"
          [] c = "Y" -> "y" [] c = "Z" -> "z"]

RECURSIVE ToLowerCase(_)
\* s.toLowerCase() of a string, computed half by half.
ToLowerCase(s) ==
    IF Len(s) = 0 THEN s
    ELSE IF Len(s) = 1
    THEN IF s \in DOMAIN UpperToLower THEN UpperToLower[s] ELSE s
    ELSE LET h == Len(s) \div 2
         IN  ToLowerCase(SubSeq(s, 1, h)) \o ToLowerCase(SubSeq(s, h + 1, Len(s)))

(***************************************************************************)
(* sshConfig.ts: the managed block                                         *)
(***************************************************************************)

CONFIG_MARKER_START == <<"# >>> Cursor Codespaces Extension (managed)">>

CONFIG_MARKER_END == <<"# <<< Cursor Codespaces Extension">>

\* extractManagedSection(config): { before, managed, after }
extractManagedSection(config) ==
    LET startIndex == IndexOf(config, CONFIG_MARKER_START)
        endIndex == IndexOf(config, CONFIG_MARKER_END)
    IN  IF startIndex = -1 \/ endIndex = -1
        THEN [before |-> config, managed |-> <<>>, after |-> <<>>]
        ELSE [before |-> TrimEnd(Substring(config, 0, startIndex)),
              managed |-> Substring(config, startIndex,
                                    endIndex + Len(CONFIG_MARKER_END)),
              after |-> TrimStart(SubstringFrom(config,
                                    endIndex + Len(CONFIG_MARKER_END)))]

\* mergeConfig, "Build new managed section"
managedSection(newConfig) ==
    Join(<<CONFIG_MARKER_START, Trim(newConfig), CONFIG_MARKER_END>>, <<"\n">>)

\* A slip in "Combine all parts": the managed block is put first.
newContent_blockFirst(currentConfig, newConfig) ==
    LET ex == extractManagedSection(currentConfig)
        parts == FilterNonEmpty(<<managedSection(newConfig), ex.before, ex.after>>)
    IN  Join(parts, <<"\n", "\n">>) \o <<"\n">>

\* mergeConfig, "Combine all parts": the content mergeConfig writes
newContent(currentConfig, newConfig) ==
    LET ex == extractManagedSection(currentConfig)
        parts == FilterNonEmpty(<<ex.before, managedSection(newConfig), ex.after>>)
    IN  Join(parts, <<"\n", "\n">>) \o <<"\n">>

\* mergeConfig, "Ask for permission on first write"
hasManagedSection(currentConfig) == Includes(currentConfig, CONFIG_MARKER_START)

(***************************************************************************)
(* The file system as sshConfig.ts sees it, and the errors fs throws       *)
(***************************************************************************)

\* this.sshConfigPath, as shown in messages
SshConfigPath == "~/.ssh/config"

NoError == [code |-> "", message |-> ""]

\* A raw error of an fs call: error.code and error.message as Node sets them.
FsError(code, op) ==
    IF code = "EACCES"
    THEN [code |-> "EACCES",
          message |-> "EACCES: permission denied, " \o op \o " '" \o SshConfigPath \o "'"]
    ELSE [code |-> code,
          message |-> code \o ": i/o error, " \o op \o " '" \o SshConfigPath \o "'"]

\* new Error(message): no code property
NewError(message) == [code |-> "", message |-> message]

\* Which fs call of a phase fails, and how; "none" lets every call succeed.
FsFaults ==
    {[at |-> "none", code |-> ""]} \cup
    [at : {"mkdir", "create", "read", "write"}, code : {"EACCES", "EIO"}]

NoFault == [at |-> "none", code |-> ""]

\* ensureCorrectPermissions(): mkdir when the directory is missing (this may
\* throw).  The chmod calls change permission bits only and never throw out of
\* the method; permission bits are not part of the state.
ensureCorrectPermissions(f, fault) ==
    IF ~f.dir /\ fault.at = "mkdir"
    THEN [fs |-> f, error |-> FsError(fault.code, "mkdir")]
    ELSE [fs |-> [f EXCEPT !.dir = TRUE], error |-> NoError]

\* readConfig(): the content read, or the error thrown; an absent file is
\* created empty.
readConfig(f, fault) ==
    LET p == ensureCorrectPermissions(f, fault)
        raw == IF p.error # NoError THEN p
               ELSE IF ~p.fs.exists
               THEN IF fault.at = "create"
                    THEN [fs |-> p.fs, error |-> FsError(fault.code, "open")]
                    ELSE [fs |-> [p.fs EXCEPT !.exists = TRUE, !.content = <<>>],
                          error |-> NoError]
               ELSE IF fault.at = "read"
                    THEN [fs |-> p.fs, error |-> FsError(fault.code, "open")]
                    ELSE [fs |-> p.fs, error |-> NoError]
    IN  IF raw.error = NoError
        THEN [fs |-> raw.fs, value |-> raw.fs.content, error |-> NoError]
        ELSE [fs |-> raw.fs, value |-> <<>>,
              error |->
                IF raw.error.code = "EACCES"
                   \/ Includes(raw.error.message, "permission denied")
                THEN NewError("Permission denied accessing SSH config file. "
                       \o "Please ensure you have read/write permissions for "
                       \o SshConfigPath
                       \o " and that the .ssh directory has permissions 700.")
                ELSE NewError("Failed to read SSH config: " \o raw.error.message)]

\* The catch clause of mergeConfig: the error it rethrows.
mergeConfigCatch(error) ==
    IF error.code = "EACCES" \/ Includes(error.message, "permission denied")
    THEN NewError("Permission denied writing to SSH config file. "
           \o "Please ensure you have write permissions for " \o SshConfigPath
           \o " and that the .ssh directory has permissions 700. "
           \o "You may need to run: chmod 700 ~/.ssh && chmod 600 ~/.ssh/config")
    ELSE NewError("Failed to merge SSH config: " \o error.message)

\* mergeConfig, "Ensure correct permissions before writing" and the write.
mergeConfigWrite(f, content, fault) ==
    LET p == ensureCorrectPermissions(f, fault)
    IN  IF p.error # NoError
        THEN [fs |-> p.fs, error |-> mergeConfigCatch(p.error)]
        ELSE IF fault.at = "write"
        THEN [fs |-> p.fs, error |-> mergeConfigCatch(FsError(fault.code, "open"))]
        ELSE [fs |-> [p.fs EXCEPT !.exists = TRUE, !.content = content],
              error |-> NoError]

\* mergeConfig up to its first suspension: read, build the new content, and
\* either write at once (a start marker is present) or ask for consent.
mergeConfigBegin(f, newConfig, fault) ==
    LET r == readConfig(f, fault)
    IN  IF r.error # NoError
        THEN [fs |-> r.fs, asking |-> FALSE, pending |-> <<>>,
              error |-> mergeConfigCatch(r.error)]
        ELSE IF hasManagedSection(r.value)
        THEN LET w == mergeConfigWrite(r.fs, newContent(r.value, newConfig), fault)
             IN  [fs |-> w.fs, asking |-> FALSE, pending |-> <<>>, error |-> w.error]
        ELSE [fs |-> r.fs, asking |-> TRUE,
              pending |-> newContent(r.value, newConfig), error |-> NoError]

\* The answers showInformationMessage(..., 'Allow', 'Cancel') can resolve to;
\* "" is a dismissed prompt (undefined).
ConsentAnswers == {"Allow", "Cancel", ""}

\* A slip after the prompt: the file is written before the answer is looked at.
mergeConfigAnswer_writesFirst(f, pending, action, fault) ==
    IF action # "Allow"
    THEN [fs |-> mergeConfigWrite(f, pending, fault).fs,
          error |-> mergeConfigCatch(NewError("User declined SSH config modification"))]
    ELSE mergeConfigWrite(f, pending, fault)

\* mergeConfig after the consent prompt resolved.
mergeConfigAnswer(f, pending, action, fault) ==
    IF action # "Allow"
    THEN [fs |-> f,
          error |-> mergeConfigCatch(NewError("User declined SSH config modification"))]
    ELSE mergeConfigWrite(f, pending, fault)

(***************************************************************************)
(* ghService.ts: listing codespaces and classifying a failed listing       *)
(***************************************************************************)

\* What a failed 'gh codespace list' leaves in the exec error, by the state of
\* the CLI session: error.stderr, error.stdout and error.message.
ExecFailure(session) ==
    CASE session = "loggedOut" ->
           [stderr |-> "You are not logged into any GitHub hosts. Run gh auth login to authenticate.",
            stdout |-> "",
            message |-> "Command failed: gh codespace list"]
      [] session = "noScope" ->
           [stderr |-> "error getting codespaces: HTTP 403: Must have admin rights to Repository. This API operation needs the \"codespace\" scope. To request it, run:  gh auth refresh -h github.com -s codespace",
            stdout |-> "",
            message |-> "Command failed: gh codespace list"]
      [] session = "offline" ->
           [stderr |-> "",
            stdout |-> "",
            message |-> "Command failed: gh codespace list: dial tcp: lookup api.github.com: no such host"]
      [] OTHER ->
           [stderr |-> "/bin/sh: 1: gh: not found",
            stdout |-> "",
            message |-> "Command failed: gh codespace list"]

\* a || b for strings: the first unless it is empty
OrElse(a, b) == IF a # "" THEN a ELSE b

\* The catch clause of listCodespaces: the error it throws for an exec failure.
listCodespacesCatch(failure) ==
    LET errorMessage ==
            ToLowerCase(OrElse(failure.stderr, OrElse(failure.stdout, failure.message)))
    IN  IF \/ Includes(errorMessage, "not logged in")
           \/ Includes(errorMessage, "authentication required")
           \/ Includes(errorMessage, "you are not logged into any github hosts")
           \/ Includes(errorMessage, "please run: gh auth login")
           \/ Includes(errorMessage, "gh auth login")
           \/ (Includes(errorMessage, "to get started")
               /\ Includes(errorMessage, "gh auth login"))
        THEN [name |-> "AuthenticationError", message |-> "AUTHENTICATION_REQUIRED"]
        ELSE IF \/ Includes(errorMessage, "required scope")
                \/ Includes(errorMessage, "missing required scope")
                \/ (Includes(errorMessage, "needs the") /\ Includes(errorMessage, "scope"))
                \/ Includes(errorMessage, "needs the \"codespace\" scope")
                \/ (Includes(errorMessage, "insufficient") /\ Includes(errorMessage, "scope"))
                \/ (Includes(errorMessage, "permission") /\ Includes(errorMessage, "codespace"))
                \/ (Includes(errorMessage, "403") /\ Includes(errorMessage, "scope"))
        THEN [name |-> "ScopeError", message |-> "SCOPE_REQUIRED"]
        ELSE [name |-> "Error",
              message |-> "Failed to list codespaces: " \o failure.message]

\* The sessions in which 'gh codespace list' fails.
FailingSessions == {"loggedOut", "noScope", "offline", "notInstalled"}

\* The error listCodespaces throws in each failing session.
ListError == [session \in FailingSessions |-> listCodespacesCatch(ExecFailure(session))]

NoThrow == [name |-> "", message |-> ""]

\* listCodespaces() in world w = [env, backend]: the array parsed from the
\* output, or the error thrown.
listCodespaces(e, b) ==
    IF ~e.ghInstalled THEN [value |-> <<>>, error |-> ListError["notInstalled"]]
    ELSE IF e.session \in FailingSessions
    THEN [value |-> <<>>, error |-> ListError[e.session]]
    ELSE [value |-> b, error |-> NoThrow]

(***************************************************************************)
(* ghService.ts: names, waiting for a codespace, generating the SSH config *)
(***************************************************************************)

\* The characters of the class [a-zA-Z0-9_-].
NameChars ==
    LET all == "abcdefghijklmnopqrstuvwxyzABCDEFGHIJKLMNOPQRSTUVWXYZ0123456789_-"
    IN  {SubSeq(all, k, k) : k \in 1 .. Len(all)}

\* /^[a-zA-Z0-9_-]+$/.test(codespaceName)
ValidName(codespaceName) ==
    /\ Len(codespaceName) > 0
    /\ \A k \in 1 .. Len(codespaceName) : SubSeq(codespaceName, k, k) \in NameChars

\* ensureCodespaceAvailable: maxAttempts
maxAttempts == 150

\* ensureCodespaceAvailable: pollInterval, in milliseconds
pollInterval == 2000

NoCodespace == [name |-> "", state |-> "", repository |-> ""]

\* A slip in the lookup: where no codespace has the name, the first one of
\* the listing is taken in its place.
FindByName_orFirst(codespaces, name) ==
    LET hits == {k \in 1 .. Len(codespaces) : codespaces[k].name = name}
    IN  IF hits = {}
        THEN IF codespaces = <<>> THEN NoCodespace ELSE codespaces[1]
        ELSE codespaces[CHOOSE k \in hits : \A j \in hits : k <= j]

\* codespaces.find(cs => cs.name === name): the first match, or NoCodespace for
\* undefined.
FindByName(codespaces, name) ==
    LET hits == {k \in 1 .. Len(codespaces) : codespaces[k].name = name}
    IN  IF hits = {} THEN NoCodespace
        ELSE codespaces[CHOOSE k \in hits : \A j \in hits : k <= j]

\* The error ensureCodespaceAvailable throws after maxAttempts polls, with the
\* state the extra listing shows.
TimeoutError(codespaces, codespaceName) ==
    LET found == FindByName(codespaces, codespaceName)
    IN  "Codespace did not become available within 5 minutes. "
        \o "Current state may be: "
        \o (IF found = NoCodespace \/ found.state = "" THEN "Unknown" ELSE found.state)
        \o ". The codespace may still be starting - you can try connecting again in a moment."

\* What 'gh codespace ssh --config -c name' prints.
SshConfigOf(codespaceName) ==
    <<"Host", " ", "cs." \o codespaceName \o ".main", "\n",
      "\t", "User", " ", "codespace", "\n",
      "\t", "IdentityFile", " ", "~/.ssh/codespaces.auto", "\n">>

\* How generating the config can end: the config, the CLI failing because the
\* codespace runs no SSH server, the CLI failing otherwise, or the key file
\* still missing after the attempt to have it generated.
GenOutcomes == {"ok", "sshd", "http", "nokey"}

\* The error raised inside the try block of generateSshConfig.
GenFailure(outcome) ==
    CASE outcome = "sshd" ->
           [stderr |-> "error connecting to codespace: failed to start SSH server: please check if an SSH server is installed in the container (feature sshd)",
            message |-> "Command failed: gh codespace ssh --config"]
      [] outcome = "http" ->
           [stderr |-> "error getting codespace: HTTP 404: Not Found",
            message |-> "Command failed: gh codespace ssh --config"]
      [] OTHER ->
           [stderr |-> "",
            message |-> "SSH key file not found: ~/.ssh/codespaces.auto. GitHub CLI may not have generated the keys."]

\* The catch clause of generateSshConfig: the message of the error it throws.
generateSshConfigCatch(failure) ==
    LET errorMessage == OrElse(failure.stderr, failure.message)
    IN  IF Includes(errorMessage, "sshd") \/ Includes(errorMessage, "SSH")
        THEN "SSHD_NOT_CONFIGURED"
        ELSE "Failed to generate SSH config: " \o failure.message

(***************************************************************************)
(* extension.ts: the pure parts of connectToCodespace                      *)
(***************************************************************************)

\* repository.replace('/', '-'): the first '/' only
ReplaceFirstSlash(repository) ==
    LET i == IndexOf(repository, "/")
    IN  IF i = -1 THEN repository
        ELSE Substring(repository, 0, i) \o "-" \o SubstringFrom(repository, i + 1)

\* repository.split('/')[1], for a repository that includes '/'
SecondSegment(repository) ==
    LET i == IndexOf(repository, "/")
        j == IndexOfFrom(repository, "/", i + 1)
    IN  IF j = -1 THEN SubstringFrom(repository, i + 1)
        ELSE Substring(repository, i + 1, j)

\* Step 8: the error thrown for the repository, or "" when it is accepted.
RepositoryError(repository) ==
    IF repository = "" \/ ~Includes(repository, "/")
    THEN "Invalid repository format: " \o repository
         \o ". Expected format: owner/repo-name"
    ELSE IF SecondSegment(repository) = ""
    THEN "Invalid repository format: " \o repository
         \o ". Could not extract repo name."
    ELSE ""

\* The end of the white space that starts at position i (0-based) of a text.
SpaceRunEnd(t, i) ==
    LET stops == {k \in i .. Len(t) : k = Len(t) \/ t[k + 1] \notin WhiteSpace}
    IN  CHOOSE k \in stops : \A j \in stops : k <= j

\* The end of the line that position i (0-based) of a text lies on.
LineEnd(t, i) ==
    LET stops == {k \in i .. Len(t) : k = Len(t) \/ t[k + 1] \in {"\n", "\r"}}
    IN  CHOOSE k \in stops : \A j \in stops : k <= j

\* A slip in the rewrite: the whole Host line is replaced by the name alone.
RewriteHost_dropKeyword(sshConfig, repoName) ==
    LET starts == {i \in 0 .. (Len(sshConfig) - 2) :
                      /\ i = 0 \/ sshConfig[i] \in {"\n", "\r"}
                      /\ sshConfig[i + 1] = "Host"
                      /\ sshConfig[i + 2] \in WhiteSpace}
    IN  IF starts = {} THEN sshConfig
        ELSE LET i == CHOOSE k \in starts : \A j \in starts : k <= j
                 e == LineEnd(sshConfig, SpaceRunEnd(sshConfig, i + 1))
             IN  SubSeq(sshConfig, 1, i) \o <<repoName>>
                 \o SubSeq(sshConfig, e + 1, Len(sshConfig))

\* sshConfig.replace(/^(Host\s+).*/m, '$1${repoName}'): in the first line that
\* starts with Host and white space, what follows the white space up to the end
\* of the line becomes repoName.
RewriteHost(sshConfig, repoName) ==
    LET starts == {i \in 0 .. (Len(sshConfig) - 2) :
                      /\ i = 0 \/ sshConfig[i] \in {"\n", "\r"}
                      /\ sshConfig[i + 1] = "Host"
                      /\ sshConfig[i + 2] \in WhiteSpace}
    IN  IF starts = {} THEN sshConfig
        ELSE LET i == CHOOSE k \in starts : \A j \in starts : k <= j
                 w == SpaceRunEnd(sshConfig, i + 1)
                 e == LineEnd(sshConfig, w)
             IN  SubSeq(sshConfig, 1, w) \o <<repoName>>
                 \o SubSeq(sshConfig, e + 1, Len(sshConfig))

\* The catch clause of connectToCodespace: the text of the error message shown.
connectCatch(message) ==
    LET errorMessage == OrElse(message, "Unknown error occurred")
    IN  "Failed to connect to codespace: " \o
        (IF Includes(errorMessage, "User declined")
         THEN "Connection cancelled. SSH config modification was declined."
         ELSE IF Includes(errorMessage, "Invalid repository")
         THEN "Invalid repository format. Please ensure your codespace has a valid repository (owner/repo-name format)."
         ELSE IF Includes(errorMessage, "Invalid codespace name")
         THEN "Invalid codespace name format. Please try again."
         ELSE IF Includes(errorMessage, "SSHD_NOT_CONFIGURED")
         THEN "SSHD is not configured in your Codespace. Please configure it in your devcontainer."
         ELSE IF Includes(errorMessage, "AUTHENTICATION_REQUIRED")
         THEN "GitHub authentication required. Please login using 'gh auth login'."
         ELSE IF Includes(errorMessage, "SCOPE_REQUIRED")
         THEN "Additional GitHub scopes required. Please refresh authentication with 'gh auth refresh -h github.com -s codespace'."
         ELSE errorMessage)

(***************************************************************************)
(* codespaceExplorer.ts: the polling timer and getChildren                 *)
(***************************************************************************)

ERROR_POLL_INTERVAL_MS == 3000

TRANSITIONAL_POLL_INTERVAL_MS == 10000

TRANSITIONAL_STATES ==
    <<"Starting", "Stopping", "ShuttingDown", "Provisioning", "Rebuilding",
      "Updating", "Awaiting", "Queued", "Exporting", "Pending", "Creating">>

\* A slip in isTransitionalState: the state is compared without lower-casing.
isTransitionalState_caseSensitive(state) ==
    \E k \in 1 .. Len(TRANSITIONAL_STATES) :
        Includes(state, TRANSITIONAL_STATES[k])

\* isTransitionalState(state)
isTransitionalState(state) ==
    \E k \in 1 .. Len(TRANSITIONAL_STATES) :
        Includes(ToLowerCase(state), ToLowerCase(TRANSITIONAL_STATES[k]))

\* The state strings the backend reports in this model.
StateNames ==
    {"Available", "Shutdown", "Starting", "starting-up", "QUEUED", "Unknown"}

\* isTransitionalState over the state strings of the model.
Transitional == [state \in StateNames |-> isTransitionalState(state)]

\* The timer handle setInterval returns: the least id not scheduled.
NewTimerId(p) ==
    CHOOSE id \in 1 .. (Cardinality(p.timers) + 1) :
        /\ \A t \in p.timers : t.id # id
        /\ \A j \in 1 .. (id - 1) : \E t \in p.timers : t.id = j

\* A slip in startPolling: the test for a timer that is already running is
\* left out, so that a second interval is created and the handle overwritten.
startPolling_noGuard(p, intervalMs) ==
    LET id == NewTimerId(p)
    IN  [pollingInterval |-> id,
         timers |-> p.timers \cup {[id |-> id, ms |-> intervalMs]}]

\* startPolling(intervalMs) on p = [pollingInterval, timers]; 0 is undefined.
startPolling(p, intervalMs) ==
    IF p.pollingInterval # 0 THEN p
    ELSE LET id == NewTimerId(p)
         IN  [pollingInterval |-> id,
              timers |-> p.timers \cup {[id |-> id, ms |-> intervalMs]}]

\* A slip in stopPolling: the interval is not cleared.
stopPolling_keepsTimer(p) == p

\* stopPolling()
stopPolling(p) ==
    IF p.pollingInterval # 0
    THEN [pollingInterval |-> 0,
          timers |-> {t \in p.timers : t.id # p.pollingInterval}]
    ELSE p

\* The tree items getChildren returns.
Sentinel(type) == <<[type |-> type]>>

CodespaceItems(codespaces, connecting) ==
    [k \in 1 .. Len(codespaces) |->
        [type |-> "Codespace", codespace |-> codespaces[k],
         isConnecting |-> codespaces[k].name \in connecting]]

\* A slip in the first step of getChildren: polling is started along with the
\* installation sentinel.
getChildrenAfterGhCheck_polls(p, e) ==
    IF ~e.ghInstalled
    THEN [done |-> TRUE,
          poll |-> startPolling(stopPolling(p), ERROR_POLL_INTERVAL_MS),
          items |-> Sentinel("InstallationInstructions")]
    ELSE IF e.incompatible
    THEN [done |-> TRUE,
          poll |-> startPolling(stopPolling(p), ERROR_POLL_INTERVAL_MS),
          items |-> Sentinel("RemoteContainersIncompatible")]
    ELSE [done |-> FALSE, poll |-> p, items |-> <<>>]

\* A slip in the first step of getChildren: the timer is stopped along with
\* the installation sentinel.
getChildrenAfterGhCheck_stops(p, e) ==
    IF ~e.ghInstalled
    THEN [done |-> TRUE, poll |-> stopPolling(p),
          items |-> Sentinel("InstallationInstructions")]
    ELSE IF e.incompatible
    THEN [done |-> TRUE,
          poll |-> startPolling(stopPolling(p), ERROR_POLL_INTERVAL_MS),
          items |-> Sentinel("RemoteContainersIncompatible")]
    ELSE [done |-> FALSE, poll |-> p, items |-> <<>>]

\* getChildren after checkGhInstalled resolved: the installation sentinel, the
\* incompatibility sentinel with error polling, or on to the listing.
getChildrenAfterGhCheck(p, e) ==
    IF ~e.ghInstalled
    THEN [done |-> TRUE, poll |-> p, items |-> Sentinel("InstallationInstructions")]
    ELSE IF e.incompatible
    THEN [done |-> TRUE,
          poll |-> startPolling(stopPolling(p), ERROR_POLL_INTERVAL_MS),
          items |-> Sentinel("RemoteContainersIncompatible")]
    ELSE [done |-> FALSE, poll |-> p, items |-> <<>>]

\* A slip in the catch clause: the sentinels are returned with polling stopped.
getChildrenCatch_noPolling(p, error) ==
    IF error.name = "AuthenticationError" \/ error.message = "AUTHENTICATION_REQUIRED"
    THEN [poll |-> stopPolling(p), items |-> Sentinel("AuthenticationRequired")]
    ELSE IF error.name = "ScopeError" \/ error.message = "SCOPE_REQUIRED"
    THEN [poll |-> stopPolling(p), items |-> Sentinel("ScopeRequired")]
    ELSE [poll |-> stopPolling(p), items |-> <<>>]

\* A slip in the catch clause: polling is started without stopping the timer
\* that is running.
getChildrenCatch_noStop(p, error) ==
    IF error.name = "AuthenticationError" \/ error.message = "AUTHENTICATION_REQUIRED"
    THEN [poll |-> startPolling(p, ERROR_POLL_INTERVAL_MS),
          items |-> Sentinel("AuthenticationRequired")]
    ELSE IF error.name = "ScopeError" \/ error.message = "SCOPE_REQUIRED"
    THEN [poll |-> startPolling(p, ERROR_POLL_INTERVAL_MS),
          items |-> Sentinel("ScopeRequired")]
    ELSE [poll |-> stopPolling(p), items |-> <<>>]

\* The catch clause of getChildren.
getChildrenCatch(p, error) ==
    IF error.name = "AuthenticationError" \/ error.message = "AUTHENTICATION_REQUIRED"
    THEN [poll |-> startPolling(stopPolling(p), ERROR_POLL_INTERVAL_MS),
          items |-> Sentinel("AuthenticationRequired")]
    ELSE IF error.name = "ScopeError" \/ error.message = "SCOPE_REQUIRED"
    THEN [poll |-> startPolling(stopPolling(p), ERROR_POLL_INTERVAL_MS),
          items |-> Sentinel("ScopeRequired")]
    ELSE [poll |-> stopPolling(p), items |-> <<>>]

\* A slip in the last step of getChildren: the running timer is not stopped
\* before polling is started for a transitional state.
getChildrenList_noStop(p, codespaces, connecting) ==
    LET hasTransitionalState ==
            \E k \in 1 .. Len(codespaces) : Transitional[codespaces[k].state]
    IN  [poll |-> IF hasTransitionalState
                  THEN startPolling(p, TRANSITIONAL_POLL_INTERVAL_MS)
                  ELSE stopPolling(p),
         items |-> Sentinel("CreateCodespace") \o CodespaceItems(codespaces, connecting)]

\* A slip in the last step of getChildren: without a transitional state the
\* timer is left as it was.
getChildrenList_keepsPolling(p, codespaces, connecting) ==
    LET hasTransitionalState ==
            \E k \in 1 .. Len(codespaces) : Transitional[codespaces[k].state]
    IN  [poll |-> IF hasTransitionalState
                  THEN startPolling(stopPolling(p), TRANSITIONAL_POLL_INTERVAL_MS)
                  ELSE p,
         items |-> Sentinel("CreateCodespace") \o CodespaceItems(codespaces, connecting)]

\* getChildren with the listing at hand and Remote-SSH available: the polling
\* decision and the items.
getChildrenList(p, codespaces, connecting) ==
    LET hasTransitionalState ==
            \E k \in 1 .. Len(codespaces) : Transitional[codespaces[k].state]
    IN  [poll |-> IF hasTransitionalState
                  THEN startPolling(stopPolling(p), TRANSITIONAL_POLL_INTERVAL_MS)
                  ELSE stopPolling(p),
         items |-> Sentinel("CreateCodespace") \o CodespaceItems(codespaces, connecting)]

\* A slip after checkRemoteSshAvailable: the install sentinel is returned with
\* the timer left as it was.
getChildrenAfterSshCheck_noPolling(p, e, codespaces, connecting) ==
    IF ~e.remoteSsh
    THEN [poll |-> p, items |-> Sentinel("RemoteSshRequired")]
    ELSE getChildrenList(p, codespaces, connecting)

\* getChildren after checkRemoteSshAvailable resolved.
getChildrenAfterSshCheck(p, e, codespaces, connecting) ==
    IF ~e.remoteSsh
    THEN [poll |-> startPolling(stopPolling(p), ERROR_POLL_INTERVAL_MS),
          items |-> Sentinel("RemoteSshRequired")]
    ELSE getChildrenList(p, codespaces, connecting)

(***************************************************************************)
(* State                                                                   *)
(***************************************************************************)

VARIABLES
    fs,         \* the SSH directory and config file: [dir, exists, content]
    merge,      \* the mergeConfig call in progress or last finished, with what
                \* it saw: [pc, newConfig, pending, asked, pre, read, error,
                \*          calls, prevBody, prevOk, declined]
    env,        \* what the extension finds around it: [ghInstalled, session,
                \*          incompatible, remoteSsh]
    backend,    \* the codespaces 'gh codespace list' reports, in order
    poll,       \* the explorer's timer: [pollingInterval, timers]
    calls,      \* the getChildren calls in flight: call -> [pc, codespaces,
                \*          newest, overtaken]; newest marks the call started
                \*          last, overtaken a call in flight since before that
                \*          one completed, the timer being as it left it
    treeDirty,  \* onDidChangeTreeData has fired and getChildren is due
    shown,      \* the items the last finished getChildren returned
    disposed,   \* the explorer provider has been disposed
    flow,       \* the connectToCodespace call: [pc, codespace, latest, attempt,
                \*          seen, gen, result, failed]; seen is the state the
                \*          last listing showed for the codespace, gen how the
                \*          generation of the SSH config ended, failed that
                \*          a call the flow made has failed
    log,        \* the calls the flow made to the CLI, the SSH config manager
                \* and Remote-SSH, in order, immediate repetitions left out
    ui,         \* the messages and prompts the flow showed, in order
    remote,     \* the folder opened through Remote-SSH: [hostName, workspacePath]
    connecting, \* the explorer's connectingCodespaces: a set of names
    commands,   \* the command invocations: invocation -> [pc, via, name,
                \*          outcome]; name is the codespace its flow is about
    service,    \* the GhService method called directly: [pc, op, arg, result,
                \*          attempt, seen, stderr]; result is "ok" or the
                \*          message of the error thrown, stderr what the last
                \*          process wrote there
    exec,       \* the command lines handed to execAsync by the method called
                \* last and by the create command, in order
    picker      \* the create command and the quick pick it shows: [stage,
                \*          repo, branch, machine, value, currentRequestId,
                \*          isDisposed, busy, items, searchTimeout, inflight,
                \*          outcome]; items names the request whose result
                \*          the list shows, searchTimeout the request whose
                \*          debounce timer is pending (0: none), inflight the
                \*          list and search requests not yet settled

mergeVars == <<fs, merge>>

worldVars == <<env, backend>>

explorerVars == <<poll, calls, treeDirty, shown, disposed>>

flowVars == <<flow, log, ui, remote>>

commandVars == <<connecting, commands>>

serviceVars == <<service, exec, picker>>

vars ==
    <<fs, merge, env, backend, poll, calls, treeDirty, shown, disposed,
      flow, log, ui, remote, connecting, commands, service, exec, picker>>

(***************************************************************************)
(* Bounds and input sets                                                   *)
(***************************************************************************)

\* Initial file contents are concatenations of at most MaxPieces pieces.
MaxPieces == 3

\* mergeConfig is called at most MaxMerges times in a run of SpecMerge.
MaxMerges == 2

\* At most MaxCalls getChildren calls overlap.
MaxCalls == 2

\* At most MaxCommands commands are invoked in a run.
MaxCommands == 3

\* At most MaxRequests list or search requests are issued by one quick pick.
MaxRequests == 2

\* The tokens initial file contents are made of: the markers, a word, white space.
Pieces == {CONFIG_MARKER_START, CONFIG_MARKER_END, <<"a">>, <<"\n">>, <<" ">>}

RECURSIVE Texts(_)
Texts(n) ==
    IF n = 0 THEN {<<>>}
    ELSE LET T == Texts(n - 1) IN T \cup {p \o t : p \in Pieces, t \in T}

\* The bodies handed to mergeConfig: what 'gh codespace ssh --config' prints,
\* with and without surrounding white space, and an empty output.
Bodies == {<<"Host", " ", "b">>, <<" ", "Host", " ", "c", "\n">>, <<>>}

\* The block an earlier merge wrote, and files that hold it: alone, and with
\* the user's own entries before it, after it, and around it.
OldBlock ==
    CONFIG_MARKER_START \o <<"\n", "Host", " ", "old", "\n">> \o CONFIG_MARKER_END

MergedConfigs ==
    {OldBlock \o <<"\n">>,
     <<"x", "\n", "\n">> \o OldBlock \o <<"\n">>,
     OldBlock \o <<"\n", "\n", "y", "\n">>,
     <<"x", " ", "\n">> \o OldBlock \o <<"\n", " ", "y", "\n">>}

InitialFs ==
    {[dir |-> d, exists |-> FALSE, content |-> <<>>] : d \in BOOLEAN}
    \cup [dir : {TRUE}, exists : {TRUE}, content : Texts(MaxPieces) \cup MergedConfigs]

MergeIdle ==
    [pc |-> "idle", newConfig |-> <<>>, pending |-> <<>>, asked |-> FALSE,
     pre |-> [exists |-> FALSE, content |-> <<>>], read |-> FALSE,
     error |-> NoError, calls |-> 0, prevBody |-> <<>>, prevOk |-> FALSE,
     declined |-> FALSE]

\* The worlds the explorer is exercised in: each way the CLI, the session and
\* the extensions can be, and listings with and without transitional states.
Codespace(name, state, repository) ==
    [name |-> name, state |-> state, repository |-> repository]

GoodEnv ==
    [ghInstalled |-> TRUE, session |-> "ok", incompatible |-> FALSE, remoteSsh |-> TRUE]

ExplorerListings ==
    {<<>>,
     <<Codespace("abc123", "Available", "acme/widgets"),
       Codespace("xyz789", "Shutdown", "acme/gadgets")>>,
     <<Codespace("abc123", "starting-up", "acme/widgets")>>,
     <<Codespace("abc123", "Shutdown", "acme/widgets"),
       Codespace("xyz789", "QUEUED", "acme/gadgets")>>}

ExplorerEnvs ==
    {GoodEnv,
     [GoodEnv EXCEPT !.ghInstalled = FALSE],
     [GoodEnv EXCEPT !.ghInstalled = FALSE, !.incompatible = TRUE],
     [GoodEnv EXCEPT !.incompatible = TRUE],
     [GoodEnv EXCEPT !.incompatible = TRUE, !.session = "loggedOut"],
     [GoodEnv EXCEPT !.session = "loggedOut"],
     [GoodEnv EXCEPT !.session = "loggedOut", !.remoteSsh = FALSE],
     [GoodEnv EXCEPT !.session = "noScope"],
     [GoodEnv EXCEPT !.session = "offline"],
     [GoodEnv EXCEPT !.remoteSsh = FALSE]}

\* A listing is told apart only where 'gh codespace list' succeeds; elsewhere
\* the account holds no codespace.
ExplorerWorlds ==
    {w \in ExplorerEnvs \X ExplorerListings :
        (w[1].ghInstalled /\ w[1].session = "ok") \/ w[2] = <<>>}

Calls == 1 .. MaxCalls

CallIdle == [pc |-> "idle", codespaces |-> <<>>, newest |-> FALSE, overtaken |-> FALSE]

PollIdle == [pollingInterval |-> 0, timers |-> {}]

WorldIdle ==
    /\ env = GoodEnv
    /\ backend = <<>>

ExplorerIdle ==
    /\ poll = PollIdle
    /\ calls = [c \in Calls |-> CallIdle]
    /\ treeDirty = FALSE
    /\ shown = <<>>
    /\ disposed = FALSE

NoRemote == [hostName |-> "", workspacePath |-> ""]

FlowIdle ==
    /\ flow = [pc |-> "idle", codespace |-> NoCodespace, latest |-> NoCodespace,
               attempt |-> 0, seen |-> "", gen |-> "", result |-> "",
               failed |-> FALSE]
    /\ log = <<>>
    /\ ui = <<>>
    /\ remote = NoRemote

Commands == 1 .. MaxCommands

CommandIdle == [pc |-> "idle", via |-> "", name |-> "", outcome |-> ""]

CommandsIdle ==
    /\ connecting = {}
    /\ commands = [k \in Commands |-> CommandIdle]

\* No item of a quick pick: the list is empty or was never set.
NoItems == [stage |-> "", from |-> 0, kind |-> "", query |-> "", result |-> ""]

\* The create command before it is run.
PickerIdle ==
    [stage |-> "idle", repo |-> "", branch |-> "", machine |-> "", value |-> "",
     currentRequestId |-> 0, isDisposed |-> FALSE, busy |-> FALSE,
     items |-> NoItems, searchTimeout |-> 0, inflight |-> {}, outcome |-> ""]

\* No method of GhService has been called directly, no process was started.
ServiceIdle ==
    /\ service = [pc |-> "idle", op |-> "", arg |-> "", result |-> "",
                  attempt |-> 0, seen |-> "", stderr |-> ""]
    /\ exec = <<>>
    /\ picker = PickerIdle

(***************************************************************************)
(* mergeConfig as the two steps its one suspension point divides it into   *)
(***************************************************************************)

\* mergeConfig(newConfig) is called: everything up to the consent prompt, or
\* up to the end when no prompt is shown.
MergeBegin(newConfig, fault) ==
    LET b == mergeConfigBegin(fs, newConfig, fault)
    IN  /\ merge.pc \in {"idle", "done"}
        /\ fs' = b.fs
        /\ merge' = [pc |-> IF b.asking THEN "asking" ELSE "done",
                     newConfig |-> newConfig,
                     pending |-> b.pending,
                     asked |-> b.asking,
                     pre |-> [exists |-> fs.exists, content |-> fs.content],
                     read |-> readConfig(fs, fault).error = NoError,
                     error |-> b.error,
                     calls |-> merge.calls + 1,
                     prevBody |-> merge.newConfig,
                     prevOk |-> merge.pc = "done" /\ merge.error = NoError,
                     declined |-> FALSE]

\* The consent prompt resolves and mergeConfig runs to its end.
MergeAnswer(action, fault) ==
    LET a == mergeConfigAnswer(fs, merge.pending, action, fault)
    IN  /\ merge.pc = "asking"
        /\ fs' = a.fs
        /\ merge' = [merge EXCEPT !.pc = "done", !.error = a.error,
                                  !.declined = action # "Allow"]

(***************************************************************************)
(* SpecMerge: mergeConfig called repeatedly on any initial file            *)
(***************************************************************************)

InitMerge ==
    /\ fs \in InitialFs
    /\ merge = MergeIdle
    /\ WorldIdle
    /\ ExplorerIdle
    /\ FlowIdle
    /\ CommandsIdle
    /\ ServiceIdle

MergeCall ==
    \E b \in Bodies, fault \in FsFaults :
        /\ merge.calls < MaxMerges
        /\ MergeBegin(b, fault)
        /\ UNCHANGED <<worldVars, explorerVars, flowVars, commandVars, serviceVars>>

MergeConsent ==
    \E a \in ConsentAnswers, fault \in FsFaults :
        /\ MergeAnswer(a, fault)
        /\ UNCHANGED <<worldVars, explorerVars, flowVars, commandVars, serviceVars>>

NextMerge == MergeCall \/ MergeConsent

SpecMerge == InitMerge /\ [][NextMerge]_vars

(***************************************************************************)
(* The explorer: getChildren step by step, the timer, refresh, dispose     *)
(***************************************************************************)

\* The set of codespaces marked as connecting (connectingCodespaces).
Connecting == connecting

\* VS Code calls getChildren after the tree was signalled as changed.
\* The calls once call c has been started: it is the one started last.
CallStarted(c) ==
    [d \in Calls |->
        IF d = c
        THEN [pc |-> "checkGh", codespaces |-> <<>>, newest |-> TRUE, overtaken |-> FALSE]
        ELSE [calls[d] EXCEPT !.newest = FALSE, !.overtaken = FALSE]]

\* The calls once call c has returned: if it was the one started last, those
\* still in flight have been overtaken by it.
CallCompleted(c) ==
    [d \in Calls |->
        IF d = c \/ calls[d].pc = "idle"
        THEN CallIdle
        ELSE [calls[d] EXCEPT !.overtaken = calls[c].newest]]

GetChildrenCall(c) ==
    /\ ~disposed
    /\ treeDirty
    /\ calls[c].pc = "idle"
    /\ calls' = CallStarted(c)
    /\ treeDirty' = FALSE
    /\ UNCHANGED <<poll, shown, disposed, mergeVars, worldVars, flowVars, commandVars, serviceVars>>

\* checkGhInstalled resolves; the incompatibility check follows at once.
GetChildrenGhChecked(c) ==
    LET r == getChildrenAfterGhCheck(poll, env)
    IN  /\ calls[c].pc = "checkGh"
        /\ poll' = r.poll
        /\ IF r.done
           THEN /\ calls' = CallCompleted(c)
                /\ shown' = r.items
           ELSE /\ calls' = [calls EXCEPT ![c].pc = "list"]
                /\ UNCHANGED shown
        /\ UNCHANGED <<treeDirty, disposed, mergeVars, worldVars, flowVars, commandVars, serviceVars>>

\* listCodespaces resolves or throws.
GetChildrenListed(c) ==
    LET l == listCodespaces(env, backend)
        r == getChildrenCatch(poll, l.error)
    IN  /\ calls[c].pc = "list"
        /\ IF l.error = NoThrow
           THEN /\ calls' = [calls EXCEPT ![c].pc = "checkSsh",
                                          ![c].codespaces = l.value]
                /\ UNCHANGED <<poll, shown>>
           ELSE /\ calls' = CallCompleted(c)
                /\ poll' = r.poll
                /\ shown' = r.items
        /\ UNCHANGED <<treeDirty, disposed, mergeVars, worldVars, flowVars, commandVars, serviceVars>>

\* checkRemoteSshAvailable resolves and getChildren runs to its end.
GetChildrenSshChecked(c) ==
    LET r == getChildrenAfterSshCheck(poll, env, calls[c].codespaces, Connecting)
    IN  /\ calls[c].pc = "checkSsh"
        /\ calls' = CallCompleted(c)
        /\ poll' = r.poll
        /\ shown' = r.items
        /\ UNCHANGED <<treeDirty, disposed, mergeVars, worldVars, flowVars, commandVars, serviceVars>>

\* A scheduled timer fires: refresh().
TimerTick ==
    /\ poll.timers # {}
    /\ treeDirty' = TRUE
    /\ UNCHANGED <<poll, calls, shown, disposed, mergeVars, worldVars, flowVars, commandVars, serviceVars>>

\* refresh() from the refresh command, a visibility change or activation.
Refresh ==
    /\ ~disposed
    /\ treeDirty' = TRUE
    /\ UNCHANGED <<poll, calls, shown, disposed, mergeVars, worldVars, flowVars, commandVars, serviceVars>>

\* dispose()
Dispose ==
    /\ ~disposed
    /\ disposed' = TRUE
    /\ poll' = stopPolling(poll)
    /\ calls' = [d \in Calls |-> [calls[d] EXCEPT !.overtaken = FALSE]]
    /\ UNCHANGED <<treeDirty, shown, mergeVars, worldVars, flowVars, commandVars, serviceVars>>

\* The user installs, logs in, grants a scope; codespaces change state.
WorldChange ==
    /\ \E w \in ExplorerWorlds :
          /\ w # <<env, backend>>
          /\ env' = w[1]
          /\ backend' = w[2]
    /\ UNCHANGED <<explorerVars, mergeVars, flowVars, commandVars, serviceVars>>

InitExplorer ==
    /\ fs = [dir |-> TRUE, exists |-> FALSE, content |-> <<>>]
    /\ merge = MergeIdle
    /\ \E w \in ExplorerWorlds : env = w[1] /\ backend = w[2]
    /\ ExplorerIdle
    /\ FlowIdle
    /\ CommandsIdle
    /\ ServiceIdle

NextExplorer ==
    \/ \E c \in Calls : GetChildrenCall(c)
    \/ \E c \in Calls : GetChildrenGhChecked(c)
    \/ \E c \in Calls : GetChildrenListed(c)
    \/ \E c \in Calls : GetChildrenSshChecked(c)
    \/ TimerTick
    \/ Refresh
    \/ Dispose
    \/ WorldChange

SpecExplorer == InitExplorer /\ [][NextExplorer]_vars

\* What the scheduling gives: an interval that is set fires, VS Code calls
\* getChildren after the tree was signalled as changed, and the promises a
\* getChildren call awaits are settled. Refreshes by the user, disposal and
\* changes of the world are not owed.
FairExplorer ==
    /\ WF_vars(TimerTick)
    /\ WF_vars(\E c \in Calls : GetChildrenCall(c))
    /\ \A c \in Calls :
          /\ WF_vars(GetChildrenGhChecked(c))
          /\ WF_vars(GetChildrenListed(c))
          /\ WF_vars(GetChildrenSshChecked(c))

SpecExplorerLive == InitExplorer /\ [][NextExplorer]_vars /\ FairExplorer

(***************************************************************************)
(* connectToCodespace step by step                                         *)
(***************************************************************************)

\* A slip in the loop of ensureCodespaceAvailable: one attempt too many.
PollAgain_offByOne(attempt) == attempt <= maxAttempts

\* The loop condition of ensureCodespaceAvailable.
PollAgain(attempt) == attempt < maxAttempts

\* The codespace the flow is about, and another one of the same account.
Target(state) == Codespace("abc123", state, "acme/widgets")

Other == Codespace("xyz789", "Available", "acme/gadgets")

\* What 'gh codespace list' can answer at the time of a call.
FlowListings ==
    {<<>>, <<Other>>}
    \cup {<<Target(st), Other>> : st \in {"Shutdown", "Starting", "Available"}}

Sessions == {"ok", "loggedOut", "noScope", "offline"}

FlowWorlds == {w \in Sessions \X FlowListings : w[1] = "ok" \/ w[2] = <<>>}

\* The argument of the connect command: none (the picker is used), or an item
\* of the explorer, which may be out of date.
Selections ==
    {NoCodespace,
     Target("Shutdown"),
     Codespace("abc123", "Shutdown", "ownerrepo"),
     Codespace("abc123", "Shutdown", "acme/widgets/extra"),
     Codespace("abc123", "Shutdown", "acme/"),
     Codespace("abc123", "Available", "acme/gizmos"),
     Codespace("old999", "Available", "acme/widgets")}

FlowEnvs ==
    {GoodEnv,
     [GoodEnv EXCEPT !.ghInstalled = FALSE],
     [GoodEnv EXCEPT !.incompatible = TRUE],
     [GoodEnv EXCEPT !.remoteSsh = FALSE]}

\* The SSH config file the flow finds: none, a file of the user's own, a file
\* with a managed block.
FlowFs ==
    {[dir |-> FALSE, exists |-> FALSE, content |-> <<>>],
     [dir |-> TRUE, exists |-> TRUE, content |-> <<"Host", " ", "a", "\n">>],
     [dir |-> TRUE, exists |-> TRUE,
      content |-> CONFIG_MARKER_START \o <<"\n", "Host", " ", "old", "\n">>
                  \o CONFIG_MARKER_END \o <<"\n">>]}

FlowFaults ==
    {NoFault, [at |-> "read", code |-> "EIO"], [at |-> "write", code |-> "EACCES"]}

Message(kind, text) == [kind |-> kind, text |-> text]

Entry(call, name, path) == [call |-> call, name |-> name, path |-> path]

ListCall == Entry("listCodespaces", "", "")

\* The flow makes a call; a call that repeats the last one is not logged again.
Call(entry) ==
    log' = IF log # <<>> /\ log[Len(log)] = entry THEN log ELSE Append(log, entry)

\* The flow's record f once a call the flow made has failed (a rejected
\* promise or a non-zero exit); the field only remembers that it happened.
Failed(f) == [f EXCEPT !.failed = TRUE]

\* The connect flow, its record being f, returns after showing the given
\* messages.
ReturnFrom(f, messages) ==
    /\ flow' = [f EXCEPT !.pc = "done", !.result = "returned"]
    /\ ui' = ui \o messages

\* The connect flow returns after showing the given messages.
Return(messages) == ReturnFrom(flow, messages)

\* connectCatch over the errors listCodespaces throws.
ListErrorShown == [session \in FailingSessions |-> connectCatch(ListError[session].message)]

\* connectCatch(message), looked up where the message is a list error's.
Shown(message) ==
    IF \E session \in FailingSessions : ListError[session].message = message
    THEN ListErrorShown[CHOOSE session \in FailingSessions :
                            ListError[session].message = message]
    ELSE connectCatch(message)

\* An error reaches the catch clause of connectToCodespace, the flow's record
\* being f.
ThrowFrom(f, message) ==
    /\ flow' = [f EXCEPT !.pc = "done", !.result = "error", !.attempt = 0]
    /\ ui' = Append(ui, Message("error", Shown(message)))

\* An error reaches the catch clause of connectToCodespace.
Throw(message) == ThrowFrom(flow, message)

\* What a fetch of the listing yields when, at the time of the call, the
\* session and the codespaces of the account are w.
Seen(w) == listCodespaces([env EXCEPT !.session = w[1]], w[2])

\* promptLogin()
promptLogin(accept) ==
    <<Message("prompt", "GitHub CLI authentication required. Open terminal to login?")>>
    \o (IF accept
        THEN <<Message("terminal", "gh auth login"),
               Message("info", "Please complete the GitHub login in the terminal, then try connecting again.")>>
        ELSE <<>>)

\* promptRefreshScopes()
promptRefreshScopes(accept) ==
    <<Message("prompt", "Additional GitHub scopes required for Codespaces. Refresh authentication?")>>
    \o (IF accept
        THEN <<Message("terminal", "gh auth refresh -h github.com -s codespace"),
               Message("info", "Please complete the scope refresh in the terminal, then try connecting again.")>>
        ELSE <<>>)

\* The connect command is run, with or without a codespace.
Invoke(selectedCodespace) ==
    /\ flow.pc = "idle"
    /\ flow' = [flow EXCEPT !.pc = "ready.gh", !.codespace = selectedCodespace]
    /\ UNCHANGED <<log, ui, remote, mergeVars, worldVars, explorerVars, commandVars, serviceVars>>

\* ensureReady: checkGhInstalled resolves.
ReadyGhChecked ==
    /\ flow.pc = "ready.gh"
    /\ IF ~env.ghInstalled
       THEN /\ Return(<<Message("error", "GitHub CLI (gh) is not installed. Please install it from https://cli.github.com/")>>)
            /\ UNCHANGED log
       ELSE /\ flow' = [flow EXCEPT !.pc = "ready.list"]
            /\ Call(ListCall)
            /\ UNCHANGED ui
    /\ UNCHANGED <<remote, mergeVars, worldVars, explorerVars, commandVars, serviceVars>>

\* A slip in step 2: after the switch to the supported extension was invoked
\* the flow goes on.
ReadyListed_goesOn(w, accept) ==
    LET l == Seen(w)
        f == IF l.error # NoThrow THEN Failed(flow) ELSE flow
    IN  /\ flow.pc = "ready.list"
        /\ IF l.error.name = "AuthenticationError" \/ l.error.message = "AUTHENTICATION_REQUIRED"
           THEN ReturnFrom(f, promptLogin(accept)) /\ UNCHANGED log
           ELSE IF l.error.name = "ScopeError" \/ l.error.message = "SCOPE_REQUIRED"
           THEN ReturnFrom(f, promptRefreshScopes(accept)) /\ UNCHANGED log
           ELSE IF env.incompatible
           THEN /\ ui' = Append(ui, Message("error", "The VSCode Remote Containers extension is not supported with the Anysphere Remote SSH extension. Please switch to the Anysphere Remote Containers extension."))
                /\ IF accept
                   THEN /\ Call(Entry("switchToAnysphereRemoteContainers", "", ""))
                        /\ flow' = [f EXCEPT !.pc = "sshReady"]
                   ELSE /\ UNCHANGED log
                        /\ flow' = [f EXCEPT !.pc = "done", !.result = "returned"]
           ELSE /\ flow' = [f EXCEPT !.pc = "sshReady"]
                /\ UNCHANGED <<log, ui>>
        /\ UNCHANGED <<remote, mergeVars, worldVars, explorerVars, commandVars, serviceVars>>

\* ensureReady: listCodespaces resolves or throws; when the CLI is ready the
\* incompatibility check follows at once and Remote-SSH is asked for next.
ReadyListed(w, accept) ==
    LET l == Seen(w)
        f == IF l.error # NoThrow THEN Failed(flow) ELSE flow
    IN  /\ flow.pc = "ready.list"
        /\ IF l.error.name = "AuthenticationError" \/ l.error.message = "AUTHENTICATION_REQUIRED"
           THEN ReturnFrom(f, promptLogin(accept)) /\ UNCHANGED log
           ELSE IF l.error.name = "ScopeError" \/ l.error.message = "SCOPE_REQUIRED"
           THEN ReturnFrom(f, promptRefreshScopes(accept)) /\ UNCHANGED log
           ELSE IF env.incompatible
           THEN /\ ReturnFrom(f, <<Message("error", "The VSCode Remote Containers extension is not supported with the Anysphere Remote SSH extension. Please switch to the Anysphere Remote Containers extension.")>>)
                /\ IF accept
                   THEN Call(Entry("switchToAnysphereRemoteContainers", "", ""))
                   ELSE UNCHANGED log
           ELSE /\ flow' = [f EXCEPT !.pc = "sshReady"]
                /\ UNCHANGED <<log, ui>>
        /\ UNCHANGED <<remote, mergeVars, worldVars, explorerVars, commandVars, serviceVars>>

\* remoteSshBridge.ensureReady resolves; the picker or the refresh of step 5
\* starts by fetching the listing.
SshReady ==
    /\ flow.pc = "sshReady"
    /\ IF ~env.remoteSsh
       THEN Return(<<>>) /\ UNCHANGED log
       ELSE /\ flow' = [flow EXCEPT !.pc = IF flow.codespace = NoCodespace
                                          THEN "pick" ELSE "refresh"]
            /\ Call(ListCall)
            /\ UNCHANGED ui
    /\ UNCHANGED <<remote, mergeVars, worldVars, explorerVars, commandVars, serviceVars>>

\* pickCodespace: the listing arrives and the user picks entry choice of it, or
\* dismisses the quick pick (choice 0).
Picked(w, choice) ==
    LET l == Seen(w)
    IN  /\ flow.pc = "pick"
        /\ choice \in 0 .. Len(l.value)
        /\ IF l.error # NoThrow
           THEN /\ choice = 0
                /\ ReturnFrom(Failed(flow),
                       <<Message("error", "Failed to list codespaces: " \o l.error.message)>>)
                /\ UNCHANGED log
           ELSE IF Len(l.value) = 0
           THEN /\ Return(<<Message("info", "No codespaces found. Create one at https://github.com/codespaces")>>)
                /\ UNCHANGED log
           ELSE IF choice = 0
           THEN Return(<<>>) /\ UNCHANGED log
           ELSE /\ flow' = [flow EXCEPT !.pc = "refresh", !.codespace = l.value[choice]]
                /\ Call(ListCall)
                /\ UNCHANGED ui
        /\ UNCHANGED <<remote, mergeVars, worldVars, explorerVars, commandVars, serviceVars>>

\* Step 5: the fresh listing arrives; step 6 or step 7 starts.
Refreshed(w) ==
    LET l == Seen(w)
        latestCodespace == FindByName(l.value, flow.codespace.name)
    IN  /\ flow.pc = "refresh"
        /\ IF l.error # NoThrow
           THEN ThrowFrom(Failed(flow), l.error.message) /\ UNCHANGED log
           ELSE IF latestCodespace = NoCodespace
           THEN /\ Return(<<Message("error", "Codespace " \o flow.codespace.name
                                             \o " not found. It may have been deleted.")>>)
                /\ UNCHANGED log
           ELSE IF latestCodespace.state # "Available"
           THEN IF ~ValidName(latestCodespace.name)
                THEN Throw("Invalid codespace name format") /\ UNCHANGED log
                ELSE /\ flow' = [flow EXCEPT !.pc = "ensure.first",
                                             !.latest = latestCodespace,
                                             !.seen = latestCodespace.state]
                     /\ Call(ListCall)
                     /\ UNCHANGED ui
           ELSE /\ IF ~ValidName(flow.codespace.name)
                   THEN Throw("Invalid codespace name format") /\ UNCHANGED log
                   ELSE /\ flow' = [flow EXCEPT !.pc = "generate",
                                                !.latest = latestCodespace,
                                                !.seen = latestCodespace.state]
                        /\ Call(Entry("generateSshConfig", flow.codespace.name, ""))
                        /\ UNCHANGED ui
        /\ UNCHANGED <<remote, mergeVars, worldVars, explorerVars, commandVars, serviceVars>>

\* ensureCodespaceAvailable: its first listing arrives; a codespace that is
\* shut down is started, then the polling begins.
EnsureFirst(w) ==
    LET l == Seen(w)
        codespace == FindByName(l.value, flow.latest.name)
    IN  /\ flow.pc = "ensure.first"
        /\ IF l.error # NoThrow
           THEN ThrowFrom(Failed(flow), l.error.message) /\ UNCHANGED log
           ELSE IF codespace # NoCodespace /\ codespace.state = "Shutdown"
           THEN /\ flow' = [flow EXCEPT !.pc = "ensure.start", !.seen = codespace.state]
                /\ Call(Entry("startCodespace", flow.latest.name, ""))
                /\ UNCHANGED ui
           ELSE /\ flow' = [flow EXCEPT !.pc = "ensure.poll", !.attempt = 0,
                                        !.seen = codespace.state]
                /\ Call(ListCall)
                /\ UNCHANGED ui
        /\ UNCHANGED <<remote, mergeVars, worldVars, explorerVars, commandVars, serviceVars>>

\* startCodespace resolves or throws; a failure is logged and ignored.
EnsureStarted(started) ==
    /\ flow.pc = "ensure.start"
    /\ started \in BOOLEAN
    /\ flow' = [(IF started THEN flow ELSE Failed(flow))
                EXCEPT !.pc = "ensure.poll", !.attempt = 0]
    /\ Call(ListCall)
    /\ UNCHANGED <<ui, remote, mergeVars, worldVars, explorerVars, commandVars, serviceVars>>

\* One turn of the polling loop: the listing arrives; the loop returns, or
\* waits pollInterval and goes on, or ends and fetches the state for its error.
EnsurePolled(w) ==
    LET l == Seen(w)
        codespace == FindByName(l.value, flow.latest.name)
    IN  /\ flow.pc = "ensure.poll"
        /\ IF l.error # NoThrow
           THEN ThrowFrom(Failed(flow), l.error.message) /\ UNCHANGED log
           ELSE IF codespace # NoCodespace /\ codespace.state = "Available"
           THEN /\ flow' = [flow EXCEPT !.pc = "refresh2", !.attempt = 0,
                                        !.seen = codespace.state]
                /\ Call(ListCall)
                /\ UNCHANGED ui
           ELSE /\ flow' = [flow EXCEPT !.pc = IF PollAgain(flow.attempt + 1)
                                               THEN "ensure.poll" ELSE "ensure.timeout",
                                        !.attempt = flow.attempt + 1,
                                        !.seen = codespace.state]
                /\ Call(ListCall)
                /\ UNCHANGED ui
        /\ UNCHANGED <<remote, mergeVars, worldVars, explorerVars, commandVars, serviceVars>>

\* The loop has ended: the listing for the error message arrives and the
\* timeout error is thrown.
EnsureTimedOut(w) ==
    LET l == Seen(w)
    IN  /\ flow.pc = "ensure.timeout"
        /\ IF l.error # NoThrow
           THEN ThrowFrom(Failed(flow), l.error.message)
           ELSE Throw(TimeoutError(l.value, flow.latest.name))
        /\ UNCHANGED <<log, remote, mergeVars, worldVars, explorerVars, commandVars, serviceVars>>

\* The refresh after the wait: the listing arrives and step 7 starts.
Refreshed2(w) ==
    LET l == Seen(w)
        refreshedCodespace == FindByName(l.value, flow.codespace.name)
    IN  /\ flow.pc = "refresh2"
        /\ IF l.error # NoThrow
           THEN ThrowFrom(Failed(flow), l.error.message) /\ UNCHANGED log
           ELSE IF ~ValidName(flow.codespace.name)
           THEN Throw("Invalid codespace name format") /\ UNCHANGED log
           ELSE /\ flow' = [flow EXCEPT !.pc = "generate",
                                        !.latest = IF refreshedCodespace # NoCodespace
                                                   THEN refreshedCodespace
                                                   ELSE flow.latest,
                                        !.seen = refreshedCodespace.state]
                /\ Call(Entry("generateSshConfig", flow.codespace.name, ""))
                /\ UNCHANGED ui
        /\ UNCHANGED <<remote, mergeVars, worldVars, explorerVars, commandVars, serviceVars>>

\* Steps 7 to 9: the CLI answers; the repository is checked, the Host line is
\* rewritten and mergeConfig runs up to its prompt or to its end.
Generated(outcome, accept, fault) ==
    LET repository == flow.codespace.repository
        repoName == ReplaceFirstSlash(repository)
        simpleRepoName == SecondSegment(repository)
        modifiedSshConfig == RewriteHost(SshConfigOf(flow.codespace.name), repoName)
        b == mergeConfigBegin(fs, modifiedSshConfig, fault)
        generated == [flow EXCEPT !.gen = outcome, !.failed = @ \/ outcome # "ok"]
    IN  /\ flow.pc = "generate"
        /\ IF outcome # "ok"
           THEN /\ fault = NoFault
                /\ IF generateSshConfigCatch(GenFailure(outcome)) = "SSHD_NOT_CONFIGURED"
                   THEN ReturnFrom(generated,
                            <<Message("prompt", "SSHD is not configured in your Codespace. Would you like to add it to your devcontainer configuration?")>>
                            \o (IF accept THEN <<Message("fix", "devcontainer.json")>> ELSE <<>>))
                   ELSE accept /\ ThrowFrom(generated, generateSshConfigCatch(GenFailure(outcome)))
                /\ UNCHANGED <<log, mergeVars>>
           ELSE /\ accept
                /\ IF RepositoryError(repository) # ""
                   THEN /\ fault = NoFault
                        /\ ThrowFrom(generated, RepositoryError(repository))
                        /\ UNCHANGED <<log, mergeVars>>
                   ELSE /\ MergeBegin(modifiedSshConfig, fault)
                        /\ IF b.asking
                           THEN /\ flow' = [generated EXCEPT !.pc = "consent"]
                                /\ Call(Entry("mergeConfig", "", ""))
                                /\ UNCHANGED ui
                           ELSE IF b.error # NoError
                           THEN /\ ThrowFrom(Failed(generated), b.error.message)
                                /\ Call(Entry("mergeConfig", "", ""))
                           ELSE /\ flow' = [generated EXCEPT !.pc = "connect"]
                                /\ log' = log \o <<Entry("mergeConfig", "", ""),
                                                   Entry("connectToHost", repoName, simpleRepoName)>>
                                /\ UNCHANGED ui
        /\ UNCHANGED <<remote, worldVars, explorerVars, commandVars, serviceVars>>

\* A slip in the last steps: connectToHost is called whatever mergeConfig did.
Consented_connectsAnyway(action, fault) ==
    LET repository == flow.codespace.repository
    IN  /\ flow.pc = "consent"
        /\ MergeAnswer(action, fault)
        /\ flow' = [flow EXCEPT !.pc = "connect"]
        /\ Call(Entry("connectToHost", ReplaceFirstSlash(repository),
                      SecondSegment(repository)))
        /\ UNCHANGED <<ui, remote, worldVars, explorerVars, commandVars, serviceVars>>

\* The consent prompt of mergeConfig resolves; on success connectToHost is
\* called with the alias and the repository's name.
Consented(action, fault) ==
    LET a == mergeConfigAnswer(fs, merge.pending, action, fault)
        repository == flow.codespace.repository
    IN  /\ flow.pc = "consent"
        /\ MergeAnswer(action, fault)
        /\ IF a.error # NoError
           THEN ThrowFrom(Failed(flow), a.error.message) /\ UNCHANGED log
           ELSE /\ flow' = [flow EXCEPT !.pc = "connect"]
                /\ Call(Entry("connectToHost", ReplaceFirstSlash(repository),
                              SecondSegment(repository)))
                /\ UNCHANGED ui
        /\ UNCHANGED <<remote, worldVars, explorerVars, commandVars, serviceVars>>

\* A slip in the last step: when the folder cannot be opened the config file
\* is put back to what it held before the merge.
Connected_rollback(opened) ==
    /\ flow.pc = "connect"
    /\ opened \in BOOLEAN
    /\ IF opened
       THEN /\ remote' = [hostName |-> ReplaceFirstSlash(flow.codespace.repository),
                          workspacePath |-> SecondSegment(flow.codespace.repository)]
            /\ flow' = [flow EXCEPT !.pc = "done", !.result = "connected"]
            /\ UNCHANGED <<ui, fs>>
       ELSE /\ ThrowFrom(Failed(flow), "command 'vscode.openFolder' failed")
            /\ fs' = [fs EXCEPT !.content = merge.pre.content]
            /\ UNCHANGED remote
    /\ UNCHANGED <<log, merge, worldVars, explorerVars, commandVars, serviceVars>>

\* connectToHost runs to its end: the reload and the refresh may fail silently,
\* vscode.openFolder opens the remote folder or throws.
Connected(opened) ==
    LET repository == flow.codespace.repository
    IN  /\ flow.pc = "connect"
        /\ opened \in BOOLEAN
        /\ IF opened
           THEN /\ remote' = [hostName |-> ReplaceFirstSlash(repository),
                              workspacePath |-> SecondSegment(repository)]
                /\ flow' = [flow EXCEPT !.pc = "done", !.result = "connected"]
                /\ UNCHANGED ui
           ELSE /\ ThrowFrom(Failed(flow), "command 'vscode.openFolder' failed")
                /\ UNCHANGED remote
        /\ UNCHANGED <<log, mergeVars, worldVars, explorerVars, commandVars, serviceVars>>

Init ==
    /\ fs \in FlowFs
    /\ merge = MergeIdle
    /\ env \in FlowEnvs
    /\ backend = <<>>
    /\ ExplorerIdle
    /\ FlowIdle
    /\ CommandsIdle
    /\ ServiceIdle

Next ==
    \/ \E c \in Selections : Invoke(c)
    \/ ReadyGhChecked
    \/ \E w \in FlowWorlds, accept \in BOOLEAN : ReadyListed(w, accept)
    \/ SshReady
    \/ \E w \in FlowWorlds, choice \in 0 .. 2 : Picked(w, choice)
    \/ \E w \in FlowWorlds : Refreshed(w)
    \/ \E w \in FlowWorlds : EnsureFirst(w)
    \/ \E started \in BOOLEAN : EnsureStarted(started)
    \/ \E w \in FlowWorlds : EnsurePolled(w)
    \/ \E w \in FlowWorlds : EnsureTimedOut(w)
    \/ \E w \in FlowWorlds : Refreshed2(w)
    \/ \E outcome \in GenOutcomes, accept \in BOOLEAN, fault \in FlowFaults :
          Generated(outcome, accept, fault)
    \/ \E action \in ConsentAnswers, fault \in FlowFaults : Consented(action, fault)
    \/ \E opened \in BOOLEAN : Connected(opened)

Spec == Init /\ [][Next]_vars

\* A step of the flow once it was invoked.
FlowStep ==
    \/ ReadyGhChecked
    \/ \E w \in FlowWorlds, accept \in BOOLEAN : ReadyListed(w, accept)
    \/ SshReady
    \/ \E w \in FlowWorlds, choice \in 0 .. 2 : Picked(w, choice)
    \/ \E w \in FlowWorlds : Refreshed(w)
    \/ \E w \in FlowWorlds : EnsureFirst(w)
    \/ \E started \in BOOLEAN : EnsureStarted(started)
    \/ \E w \in FlowWorlds : EnsurePolled(w)
    \/ \E w \in FlowWorlds : EnsureTimedOut(w)
    \/ \E w \in FlowWorlds : Refreshed2(w)
    \/ \E outcome \in GenOutcomes, accept \in BOOLEAN, fault \in FlowFaults :
          Generated(outcome, accept, fault)
    \/ \E action \in ConsentAnswers, fault \in FlowFaults : Consented(action, fault)
    \/ \E opened \in BOOLEAN : Connected(opened)

\* What the scheduling gives: every promise the flow awaits is settled (each
\* process exits, each prompt is answered or dismissed, each timer of the wait
\* fires), so an invoked flow takes its next step. Invoking it is not owed.
FairFlow == WF_vars(FlowStep)

SpecLive == Init /\ [][Next]_vars /\ FairFlow

(***************************************************************************)
(* The commands that start a connect flow                                   *)
(***************************************************************************)

\* A slip in setConnecting: the name is never taken out of the set.
setConnecting_addOnly(set, codespaceName, isConnecting) ==
    set \cup {codespaceName}

\* setConnecting(codespaceName, isConnecting), on the set; the event it fires
\* is the caller's treeDirty' = TRUE.
setConnecting(set, codespaceName, isConnecting) ==
    IF isConnecting THEN set \cup {codespaceName} ELSE set \ {codespaceName}

\* isConnecting(codespaceName)
isConnecting(set, codespaceName) == codespaceName \in set

\* The codespace 'gh codespace create' makes and createCodespace returns.
CreatedCodespace == Codespace("new456", "Starting", "acme/widgets")

\* What the account holds when the commands are exercised.
CommandListing == <<Codespace("abc123", "Available", "acme/widgets")>>

Listed == {backend[k] : k \in 1 .. Len(backend)}

\* The outcomes of connectToCodespace, which catches what its steps throw.
FlowOutcomes == {"connected", "returned", "error"}

\* cursorCodespaces.connectToCodespaceFromExplorer on a tree item: up to the
\* await of connectToCodespace, or its early returns.
ExplorerConnect(k, codespace) ==
    /\ commands[k].pc = "idle"
    /\ IF codespace.name = ""
       THEN /\ ui' = Append(ui, Message("error", "Failed to get codespace information. Please try refreshing the explorer."))
            /\ commands' = [commands EXCEPT ![k] =
                   [pc |-> "done", via |-> "explorer", name |-> "", outcome |-> "noInformation"]]
            /\ UNCHANGED <<connecting, treeDirty>>
       ELSE IF isConnecting(connecting, codespace.name)
       THEN /\ commands' = [commands EXCEPT ![k] =
                   [pc |-> "done", via |-> "explorer", name |-> codespace.name,
                    outcome |-> "ignored"]]
            /\ UNCHANGED <<connecting, treeDirty, ui>>
       ELSE /\ connecting' = setConnecting(connecting, codespace.name, TRUE)
            /\ treeDirty' = TRUE
            /\ commands' = [commands EXCEPT ![k] =
                   [pc |-> "flow", via |-> "explorer", name |-> codespace.name,
                    outcome |-> ""]]
            /\ UNCHANGED ui
    /\ UNCHANGED <<poll, calls, shown, disposed, flow, log, remote, mergeVars, worldVars, serviceVars>>

\* cursorCodespaces.connect from the palette or the status bar: up to the await
\* of connectToCodespace().
GenericConnect(k) ==
    /\ commands[k].pc = "idle"
    /\ commands' = [commands EXCEPT ![k] =
           [pc |-> "flow", via |-> "generic", name |-> "", outcome |-> ""]]
    /\ UNCHANGED <<connecting, explorerVars, flowVars, mergeVars, worldVars, serviceVars>>

\* Within connectToCodespace() the user picks a codespace of the listing.
FlowPicked(k, codespace) ==
    /\ commands[k].pc = "flow"
    /\ commands[k].via = "generic"
    /\ commands[k].name = ""
    /\ codespace \in Listed
    /\ commands' = [commands EXCEPT ![k].name = codespace.name]
    /\ UNCHANGED <<connecting, explorerVars, flowVars, mergeVars, worldVars, serviceVars>>

\* cursorCodespaces.createCodespace: up to the await of createCodespace.
CreateCall(k) ==
    /\ commands[k].pc = "idle"
    /\ commands' = [commands EXCEPT ![k] =
           [pc |-> "creating", via |-> "create", name |-> "", outcome |-> ""]]
    /\ UNCHANGED <<connecting, explorerVars, flowVars, mergeVars, worldVars, serviceVars>>

\* createCodespace resolves, the explorer is refreshed and connectToCodespace
\* is awaited with the created codespace; or it throws, which is shown.
CreateDone(k, created) ==
    /\ commands[k].pc = "creating"
    /\ IF created /\ CreatedCodespace \notin Listed
       THEN /\ backend' = Append(backend, CreatedCodespace)
            /\ treeDirty' = TRUE
            /\ commands' = [commands EXCEPT ![k].pc = "flow",
                                            ![k].name = CreatedCodespace.name]
            /\ UNCHANGED ui
       ELSE /\ ui' = Append(ui, Message("error", "Failed to create codespace: A codespace already exists for this repository and branch. Please use an existing codespace or delete it first."))
            /\ commands' = [commands EXCEPT ![k].pc = "done", ![k].outcome = "error"]
            /\ UNCHANGED <<backend, treeDirty>>
    /\ UNCHANGED <<connecting, env, poll, calls, shown, disposed, flow, log, remote, mergeVars, serviceVars>>

\* connectToCodespace returns to the command that awaits it: the finally
\* clause of the explorer command, the refresh of the generic command.
FlowFinished(k, outcome) ==
    /\ commands[k].pc = "flow"
    /\ commands[k].name = "" => outcome = "returned"
    /\ commands' = [commands EXCEPT ![k].pc = "done", ![k].outcome = outcome]
    /\ IF commands[k].via = "explorer"
       THEN /\ connecting' = setConnecting(connecting, commands[k].name, FALSE)
            /\ treeDirty' = TRUE
       ELSE IF commands[k].via = "generic"
       THEN /\ treeDirty' = TRUE
            /\ UNCHANGED connecting
       ELSE UNCHANGED <<connecting, treeDirty>>
    /\ UNCHANGED <<poll, calls, shown, disposed, flowVars, mergeVars, worldVars, serviceVars>>

InitCommands ==
    /\ fs = [dir |-> TRUE, exists |-> FALSE, content |-> <<>>]
    /\ merge = MergeIdle
    /\ env = GoodEnv
    /\ backend = CommandListing
    /\ ExplorerIdle
    /\ FlowIdle
    /\ CommandsIdle
    /\ ServiceIdle

NextCommands ==
    \/ \E k \in Commands, c \in Listed \cup {NoCodespace} : ExplorerConnect(k, c)
    \/ \E k \in Commands : GenericConnect(k)
    \/ \E k \in Commands, c \in Listed : FlowPicked(k, c)
    \/ \E k \in Commands : CreateCall(k)
    \/ \E k \in Commands, created \in BOOLEAN : CreateDone(k, created)
    \/ \E k \in Commands, outcome \in FlowOutcomes : FlowFinished(k, outcome)

SpecCommands == InitCommands /\ [][NextCommands]_vars

(***************************************************************************)
(* Properties of the merge                                                 *)
(***************************************************************************)

\* The last mergeConfig call has returned normally (the block was written).
MergeWrote == merge.pc = "done" /\ merge.error = NoError

\* The number of lines of a text that consist of the marker alone.
MarkerLines(t, marker) ==
    Cardinality({k \in 1 .. Len(t) :
        /\ t[k] = marker[1]
        /\ (k = 1 \/ t[k - 1] = "\n")
        /\ (k = Len(t) \/ t[k + 1] = "\n")})

\* extractManagedSection locates a managed block: both markers occur.
BlockLocated(config) ==
    /\ IndexOf(config, CONFIG_MARKER_START) # -1
    /\ IndexOf(config, CONFIG_MARKER_END) # -1

\* C1: merging the same body twice leaves the file byte-identical to merging
\* it once: when a merge that wrote follows a merge of the same body that
\* wrote, the file is what it was before the second merge.
C1_MergeIdempotent ==
    (MergeWrote /\ merge.prevOk /\ merge.prevBody = merge.newConfig)
        => fs.content = merge.pre.content

\* C2: when the file held neither marker, the written file contains the
\* trimmed former content unmodified, before the start marker of the new
\* block, and the end marker follows the start marker.
C2_NonManagedPreserved ==
    (/\ MergeWrote
     /\ ~Includes(merge.pre.content, CONFIG_MARKER_START)
     /\ ~Includes(merge.pre.content, CONFIG_MARKER_END))
        => LET s == IndexOf(fs.content, CONFIG_MARKER_START)
               e == IndexOf(fs.content, CONFIG_MARKER_END)
           IN  /\ s # -1
               /\ e > s
               /\ Includes(Substring(fs.content, 0, s), Trim(merge.pre.content))

\* A merge wrote into a file without markers whose text had white space to trim.
C2_Witness ==
    /\ MergeWrote
    /\ ~Includes(merge.pre.content, CONFIG_MARKER_START)
    /\ ~Includes(merge.pre.content, CONFIG_MARKER_END)
    /\ Trim(merge.pre.content) # <<>>
    /\ Trim(merge.pre.content) # merge.pre.content

\* C3: after any merge that wrote, the file holds at most one start-marker
\* line and at most one end-marker line.
C3_AtMostOneBlock ==
    MergeWrote => /\ MarkerLines(fs.content, CONFIG_MARKER_START) <= 1
                  /\ MarkerLines(fs.content, CONFIG_MARKER_END) <= 1

\* C4: a mergeConfig call that read the file asks for consent exactly when
\* the file held no managed block as the two markers locate it.
C4_ConsentIffNoBlock ==
    (merge.pc \in {"asking", "done"} /\ merge.read)
        => (merge.asked <=> ~BlockLocated(merge.pre.content))

(***************************************************************************)
(* Properties of the explorer                                              *)
(***************************************************************************)

\* Exactly one timer is scheduled, it is the stored handle's, and it has the
\* given interval.
PollingAt(p, intervalMs) ==
    /\ p.pollingInterval # 0
    /\ p.timers = {[id |-> p.pollingInterval, ms |-> intervalMs]}

\* No timer is scheduled and no handle is stored.
NotPolling(p) ==
    /\ p.pollingInterval = 0
    /\ p.timers = {}

\* The lower-case form of a character.
LowerChar(ch) == IF ch \in DOMAIN UpperToLower THEN UpperToLower[ch] ELSE ch

\* Name occurs in state when letters are compared without regard to case.
OccursIgnoringCase(state, name) ==
    \E i \in 0 .. (Len(state) - Len(name)) :
        \A k \in 1 .. Len(name) :
            LowerChar(SubSeq(state, i + k, i + k)) = LowerChar(SubSeq(name, k, k))

\* The eleven transitional names of the data model.
TransitionalNames ==
    {"Starting", "Stopping", "ShuttingDown", "Provisioning", "Rebuilding",
     "Updating", "Awaiting", "Queued", "Exporting", "Pending", "Creating"}

\* The state strings that contain a transitional name, case ignored.
ExpectedTransitional ==
    {state \in StateNames : \E name \in TransitionalNames : OccursIgnoringCase(state, name)}

\* The states of the codespaces a getChildren call holds after listing.
ListedStates(c) ==
    {calls[c].codespaces[k].state : k \in 1 .. Len(calls[c].codespaces)}

\* C6: when a getChildren call that listed successfully and found Remote-SSH
\* available completes, one timer runs at the transitional interval if a
\* listed codespace is in a transitional state, and no timer runs otherwise.
C6_PollingFollowsListing ==
    [][\A c \in Calls :
         (calls[c].pc = "checkSsh" /\ calls'[c].pc = "idle" /\ env.remoteSsh)
            => IF \E state \in ListedStates(c) : Transitional[state]
               THEN PollingAt(poll', TRANSITIONAL_POLL_INTERVAL_MS)
               ELSE NotPolling(poll')]_vars

\* The explorer shows a listing with a codespace in a transitional state and
\* the timer runs at the transitional interval.
C6_Witness ==
    /\ Len(shown) > 1
    /\ shown[1].type = "CreateCodespace"
    /\ \E k \in 2 .. Len(shown) : Transitional[shown[k].codespace.state]
    /\ PollingAt(poll, TRANSITIONAL_POLL_INTERVAL_MS)

\* C7: for every state string a getChildren call classifies,
\* isTransitionalState is true exactly when the string contains one of the
\* eleven names, case ignored; 'starting-up' and 'QUEUED' are transitional,
\* 'Available' and 'Shutdown' are not.
C7_TransitionalExactly ==
    \A c \in Calls : \A state \in ListedStates(c) :
        /\ Transitional[state] <=> state \in ExpectedTransitional
        /\ state \in {"starting-up", "QUEUED"} => Transitional[state]
        /\ state \in {"Available", "Shutdown"} => ~Transitional[state]

\* Calls hold listings with 'QUEUED' and 'Shutdown', or with 'starting-up'.
C7_Witness ==
    /\ \E c \in Calls : {"QUEUED", "Shutdown"} \subseteq ListedStates(c)
    /\ \E c \in Calls : "starting-up" \in ListedStates(c)

\* The text the catch clause of listCodespaces classifies in environment e.
FailureText(e) ==
    LET f == ExecFailure(IF e.ghInstalled THEN e.session ELSE "notInstalled")
    IN  ToLowerCase(OrElse(f.stderr, OrElse(f.stdout, f.message)))

\* C8: when the listing of a getChildren call fails and is classified as
\* authentication-required (as is a text containing 'you are not logged into
\* any github hosts'), the call returns exactly the authenticate sentinel; when
\* it is classified as scope-required, exactly the grant-scope sentinel; in
\* both cases one timer runs at the error-recovery interval on completion.
C8_AuthAndScopeSentinels ==
    [][\A c \in Calls :
         (calls[c].pc = "list" /\ calls'[c].pc = "idle")
            => LET error == listCodespaces(env, backend).error
               IN  /\ Includes(FailureText(env), "you are not logged into any github hosts")
                        => error.name = "AuthenticationError"
                   /\ error.name = "AuthenticationError"
                        => /\ shown' = <<[type |-> "AuthenticationRequired"]>>
                           /\ PollingAt(poll', ERROR_POLL_INTERVAL_MS)
                   /\ error.name = "ScopeError"
                        => /\ shown' = <<[type |-> "ScopeRequired"]>>
                           /\ PollingAt(poll', ERROR_POLL_INTERVAL_MS)]_vars

\* The explorer shows the authenticate sentinel for a session that is not
\* logged in, and the timer runs at the error-recovery interval.
C8_Witness ==
    /\ env.ghInstalled
    /\ env.session = "loggedOut"
    /\ shown = <<[type |-> "AuthenticationRequired"]>>
    /\ PollingAt(poll, ERROR_POLL_INTERVAL_MS)


(***************************************************************************)
(* Properties of the connect flow                                          *)
(***************************************************************************)

Last(q) == q[Len(q)]

\* The user was asked for consent by the flow's merge and did not allow it.
Declined == flow.pc = "done" /\ merge.pc = "done" /\ merge.asked /\ merge.declined

ConnectCalled == \E k \in 1 .. Len(log) : log[k].call = "connectToHost"

DeclinedError ==
    /\ merge.error.message = "Failed to merge SSH config: User declined SSH config modification"
    /\ Includes(merge.error.message, "User declined")
    /\ ~Includes(merge.error.message, "Permission denied")
    /\ flow.result = "error"
    /\ Last(ui) = Message("error", "Failed to connect to codespace: Connection cancelled. SSH config modification was declined.")

\* C5, as stated: after the user declines the first-write consent, mergeConfig
\* has thrown the 'User declined' error, the config file exists exactly if it
\* existed before the call and holds the same content, and connectToHost has
\* not been called.
C5_Original ==
    Declined =>
        /\ DeclinedError
        /\ fs.exists = merge.pre.exists
        /\ fs.content = merge.pre.content
        /\ ~ConnectCalled
        /\ remote = NoRemote

\* C5, amended: after the user declines the first-write consent, mergeConfig
\* has thrown the 'User declined' error and none of the new content has been
\* written: the file holds the content it held before the call, a file that did
\* not exist having been created empty when it was read; connectToHost has not
\* been called.
C5_DeclineWritesNothing ==
    Declined =>
        /\ DeclinedError
        /\ fs.exists
        /\ fs.dir
        /\ fs.content = merge.pre.content
        /\ ~merge.pre.exists => fs.content = <<>>
        /\ ~ConnectCalled
        /\ remote = NoRemote

\* The user declined while the config file did not exist before the call.
C5_Witness == Declined /\ ~merge.pre.exists /\ flow.result = "error"

TimeoutShown ==
    /\ ui # <<>>
    /\ Last(ui).kind = "error"
    /\ Includes(Last(ui).text, "did not become available within 5 minutes")

\* C9: while the listings succeed and none shows the codespace as Available,
\* each turn of the loop of ensureCodespaceAvailable is one more status poll;
\* the loop is left after exactly maxAttempts = 150 of them, never later,
\* and the flow then ends with the timeout error (or with the error of the
\* listing fetched for the timeout message).
C9_TimeoutAfterCeiling ==
    /\ [](flow.pc = "ensure.poll" => flow.attempt \in 0 .. (maxAttempts - 1))
    /\ [](flow.pc = "ensure.timeout" => flow.attempt = maxAttempts)
    /\ [][flow.pc = "ensure.poll" =>
            \/ flow'.pc = "refresh2" /\ flow'.seen = "Available"
            \/ flow'.pc = "done" /\ flow'.result = "error" /\ ~TimeoutShown'
            \/ /\ flow'.seen # "Available"
               /\ flow'.attempt = flow.attempt + 1
               /\ flow'.pc = IF flow'.attempt = 150 THEN "ensure.timeout"
                             ELSE "ensure.poll"]_vars
    /\ [][flow.pc = "ensure.timeout" =>
            /\ flow'.pc = "done" /\ flow'.result = "error"
            /\ log' = log
            /\ TimeoutShown' \/ \E session \in FailingSessions :
                                  Last(ui').text = ListErrorShown[session]]_vars
    /\ [][TimeoutShown' /\ ~TimeoutShown =>
            flow.pc = "ensure.timeout" /\ flow.attempt = 150]_vars

\* The flow ended with the timeout error.
C9_Witness == flow.pc = "done" /\ flow.result = "error" /\ TimeoutShown

StartCall == Entry("startCodespace", "abc123", "")

\* The calls of a connect that starts a codespace, in order.
StartedConnectLog ==
    <<ListCall, StartCall, ListCall, Entry("generateSshConfig", "abc123", ""),
      Entry("mergeConfig", "", ""), Entry("connectToHost", "acme-widgets", "widgets")>>

\* C10: a codespace of repository acme/widgets that ensureCodespaceAvailable
\* finds Shutdown is started; the loop is left for the next step only when a
\* poll has seen Available; and a flow that started the codespace, found no
\* managed block and connected has made its calls in the order list, start,
\* list (polls), generate, merge, connect, has rewritten the Host line to
\* acme-widgets, has asked for consent and written a new managed block, and has
\* opened host acme-widgets at path widgets.
C10_ShutdownScenario ==
    /\ [][flow.pc = "ensure.first" /\ flow'.seen = "Shutdown" /\ flow'.pc # "done" =>
            flow'.pc = "ensure.start" /\ log' = Append(log, StartCall)]_vars
    /\ [][flow.pc = "ensure.start" =>
            flow'.pc = "ensure.poll" /\ log' = Append(log, ListCall)]_vars
    /\ [][flow.pc = "ensure.poll" /\ flow'.pc \notin {"ensure.poll", "ensure.timeout", "done"} =>
            flow'.pc = "refresh2" /\ flow'.seen = "Available"]_vars
    /\ []((/\ flow.result = "connected"
           /\ flow.codespace.repository = "acme/widgets"
           /\ \E k \in 1 .. Len(log) : log[k] = StartCall
           /\ ~BlockLocated(merge.pre.content))
          => /\ log = StartedConnectLog
             /\ SubSeq(merge.newConfig, 1, 4) = <<"Host", " ", "acme-widgets", "\n">>
             /\ MarkerLines(merge.newConfig, CONFIG_MARKER_START) = 0
             /\ merge.asked /\ ~merge.declined
             /\ fs.content = newContent(merge.pre.content, merge.newConfig)
             /\ MarkerLines(fs.content, CONFIG_MARKER_START) = 1
             /\ MarkerLines(fs.content, CONFIG_MARKER_END) = 1
             /\ remote = [hostName |-> "acme-widgets", workspacePath |-> "widgets"])

\* The scenario ran to its end on a config file without a managed block.
C10_Witness ==
    /\ flow.result = "connected"
    /\ flow.codespace = Target("Shutdown")
    /\ log = StartedConnectLog
    /\ merge.asked
    /\ merge.pre.content = <<"Host", " ", "a", "\n">>
    /\ remote = [hostName |-> "acme-widgets", workspacePath |-> "widgets"]


InvalidRepositoryShown ==
    /\ flow.pc = "done" /\ flow.result = "error"
    /\ Last(ui) = Message("error", "Failed to connect to codespace: Invalid repository format. Please ensure your codespace has a valid repository (owner/repo-name format).")

\* The number of '/' in a repository string.
SlashCount(repository) ==
    Cardinality({k \in 1 .. Len(repository) : SubSeq(repository, k, k) = "/"})

\* C11: when the connect flow rejects a repository string without '/', it has
\* made no backend call before: no listing, no start, no config generation.
C11_RejectedBeforeBackend ==
    (InvalidRepositoryShown /\ SlashCount(flow.codespace.repository) = 0)
        => log = <<>>

\* A repository string the data model calls valid: exactly one '/', with a
\* name after it.
ExactlyOneSlash(repository) ==
    /\ SlashCount(repository) = 1
    /\ SubSeq(repository, Len(repository), Len(repository)) # "/"

MergeCalled == \E k \in 1 .. Len(log) : log[k].call = "mergeConfig"

\* C12: the flow merges config or connects only for a repository string with
\* exactly one '/'; for every other string it ends with the invalid-repository
\* error once the config has been generated.
C12_ExactlyOneSlash ==
    /\ (MergeCalled \/ ConnectCalled \/ merge.pc # "idle" \/ remote # NoRemote)
           => ExactlyOneSlash(flow.codespace.repository)
    /\ InvalidRepositoryShown => ~ExactlyOneSlash(flow.codespace.repository)


(***************************************************************************)
(* The timer after dispose and the single timer                            *)
(***************************************************************************)

\* C13: once dispose() has been called no polling timer is active, also after
\* a getChildren call that was in flight at the disposal has completed.
C13_NoTimerAfterDispose ==
    disposed => (poll.timers = {} /\ poll.pollingInterval = 0)


\* C14: in every reachable state at most one timer is scheduled and the stored
\* handle is set exactly when a timer is scheduled, and names it; a call of
\* startPolling in that state, a timer running or not, leaves at most one
\* timer, and leaves the running one as it is.
C14_AtMostOneTimer ==
    /\ Cardinality(poll.timers) <= 1
    /\ (poll.pollingInterval # 0) <=> (poll.timers # {})
    /\ \A t \in poll.timers : t.id = poll.pollingInterval
    /\ \A ms \in {ERROR_POLL_INTERVAL_MS, TRANSITIONAL_POLL_INTERVAL_MS} :
          LET started == startPolling(poll, ms)
          IN  /\ Cardinality(started.timers) = 1
              /\ started.pollingInterval # 0
              /\ poll.timers # {} => started = poll

\* A timer is running while every getChildren call is in flight and the tree
\* has been signalled again.
C14_Witness ==
    /\ poll.timers # {}
    /\ \A c \in Calls : calls[c].pc # "idle"
    /\ treeDirty


(***************************************************************************)
(* The connecting set and concurrent connect flows                         *)
(***************************************************************************)

InFlow(k) == commands[k].pc = "flow"

ExplorerInFlow == {k \in Commands : InFlow(k) /\ commands[k].via = "explorer"}

\* C15: the connecting set holds exactly the names of the explorer connects in
\* progress: a name added by an explorer connect is taken out when that connect
\* finishes, however connectToCodespace ended, and the set is empty whenever no
\* explorer connect is in progress.
C15_ConnectingSetCleared ==
    /\ connecting = {commands[k].name : k \in ExplorerInFlow}
    /\ ExplorerInFlow = {} => connecting = {}

\* An explorer connect has ended in an error and another one, on another
\* click, is in progress.
C15_Witness ==
    /\ \E k \in Commands :
          /\ commands[k].pc = "done"
          /\ commands[k].via = "explorer"
          /\ commands[k].outcome = "error"
    /\ \E k \in Commands : InFlow(k) /\ commands[k].via = "explorer"
    /\ \E k \in Commands :
          /\ commands[k].pc = "done"
          /\ commands[k].outcome = "ignored"

\* C16: no two connect flows are in progress for the same codespace name,
\* whichever commands started them.
C16_OneFlowPerName ==
    \A j, k \in Commands :
        (j # k /\ InFlow(j) /\ InFlow(k) /\ commands[j].name # "")
            => commands[j].name # commands[k].name


(***************************************************************************)
(* Freshness of the values the flow acts on                                *)
(***************************************************************************)

\* C17: the values the flow acts on after its suspension points come from the
\* listing fetched last, not from the object captured at selection: the folder
\* is opened under the alias and the path derived from the repository the
\* refreshed listing gave for the codespace.
C17_ValuesFromFreshList ==
    remote # NoRemote =>
        /\ flow.latest # NoCodespace
        /\ remote.hostName = ReplaceFirstSlash(flow.latest.repository)
        /\ remote.workspacePath = SecondSegment(flow.latest.repository)


(***************************************************************************)
(* A codespace that is no longer listed                                    *)
(***************************************************************************)

NotFoundShown ==
    /\ flow.pc = "done"
    /\ ui # <<>>
    /\ Last(ui) = Message("error", "Codespace " \o flow.codespace.name
                                   \o " not found. It may have been deleted.")

\* The calls that follow the refresh of step 5.
CallsPastRefresh ==
    {e \in {log[k] : k \in 1 .. Len(log)} :
        e.call \in {"startCodespace", "generateSshConfig", "mergeConfig", "connectToHost"}}

\* C18: a flow whose codespace is absent from the listing of step 5 shows that
\* the codespace was not found and may have been deleted, and ends having
\* made no call but listings, with no merge and no folder opened; a flow that
\* goes past step 5 found a codespace of the selected name in that listing,
\* and its start and config generation calls name that codespace.
C18_AbsentIsTerminal ==
    /\ NotFoundShown =>
          /\ flow.result = "returned"
          /\ log = <<ListCall>>
          /\ merge = MergeIdle
          /\ remote = NoRemote
    /\ (CallsPastRefresh # {} \/ flow.pc \in {"ensure.first", "generate"}) =>
          /\ flow.latest # NoCodespace
          /\ flow.latest.name = flow.codespace.name
          /\ \A e \in CallsPastRefresh :
                e.call \in {"startCodespace", "generateSshConfig"}
                    => e.name = flow.codespace.name

\* The explorer item of a codespace that is gone was clicked while the
\* account still lists other codespaces.
C18_Witness ==
    /\ NotFoundShown
    /\ flow.codespace.name = "old999"


(***************************************************************************)
(* A connection that fails after the merge                                 *)
(***************************************************************************)

\* connectToHost was called and threw.
ConnectFailed ==
    /\ flow.pc = "done"
    /\ flow.result = "error"
    /\ ConnectCalled

\* C19: when connectToHost fails after mergeConfig succeeded, the error is
\* shown and the config file holds what the merge wrote: the former content
\* with the managed block of the new configuration, nothing rolled back.
C19_NoRollback ==
    ConnectFailed =>
        /\ MergeWrote
        /\ remote = NoRemote
        /\ Last(ui) = Message("error", "Failed to connect to codespace: command 'vscode.openFolder' failed")
        /\ fs.exists
        /\ fs.content = newContent(merge.pre.content, merge.newConfig)
        /\ hasManagedSection(fs.content)

\* The folder could not be opened after a merge, made with the user's consent,
\* that changed the file.
C19_Witness ==
    /\ ConnectFailed
    /\ merge.asked
    /\ fs.content # merge.pre.content


(***************************************************************************)
(* Recovery from the authenticate and grant-scope sentinels                *)
(***************************************************************************)

AuthOrScopeShown ==
    \/ shown = Sentinel("AuthenticationRequired")
    \/ shown = Sentinel("ScopeRequired")

\* The explorer shows the list: the create entry followed by the codespaces.
ListShown ==
    /\ shown # <<>>
    /\ shown[1].type = "CreateCodespace"

\* The backend lists successfully and nothing else keeps the list from view.
ListsSuccessfully ==
    /\ env = GoodEnv
    /\ listCodespaces(env, backend).error = NoThrow

\* C20: while the explorer, not disposed, shows the authenticate or the
\* grant-scope sentinel, a timer runs at the error-recovery interval; and from
\* a state where such a sentinel is shown and the backend lists successfully,
\* the explorer comes to show the list, unless the backend stops listing
\* successfully or the explorer is disposed first: timer ticks alone lead
\* there, no refresh by the user is owed.
C20_SentinelRecovers ==
    /\ []((AuthOrScopeShown /\ ~disposed) => PollingAt(poll, ERROR_POLL_INTERVAL_MS))
    /\ (AuthOrScopeShown /\ ListsSuccessfully /\ ~disposed)
          ~> (ListShown \/ ~ListsSuccessfully \/ disposed)

\* A sentinel is on show with the timer running while a getChildren call,
\* made after the session recovered, has fetched the listing and is about to
\* return the list.
C20_Witness ==
    /\ AuthOrScopeShown
    /\ ListsSuccessfully
    /\ ~disposed
    /\ PollingAt(poll, ERROR_POLL_INTERVAL_MS)
    /\ \E c \in Calls : calls[c].pc = "checkSsh" /\ calls[c].codespaces = backend
    /\ backend # <<>>


(***************************************************************************)
(* The sentinels of getChildren before and after the listing               *)
(***************************************************************************)

\* C21: when checkGhInstalled finds no CLI, the getChildren call returns
\* exactly one item, the installation sentinel, leaves the timer as it was
\* (it starts none) and ends without going on to the listing.
C21_InstallationSentinel ==
    [][\A c \in Calls :
         (calls[c].pc = "checkGh" /\ calls'[c].pc # "checkGh" /\ ~env.ghInstalled)
            => /\ shown' = <<[type |-> "InstallationInstructions"]>>
               /\ Len(shown') = 1
               /\ poll' = poll
               /\ calls'[c].pc = "idle"
               /\ calls'[c].codespaces = <<>>]_vars

\* The explorer of a machine without the CLI shows the installation sentinel
\* and no timer runs.
C21_Witness ==
    /\ ~env.ghInstalled
    /\ shown = <<[type |-> "InstallationInstructions"]>>
    /\ NotPolling(poll)
    /\ \A c \in Calls : calls[c].pc = "idle"


\* C22: a getChildren call that detects the incompatible extension returns
\* exactly the fix-incompatibility sentinel, and a call whose listing succeeded
\* and that finds Remote-SSH unavailable returns exactly the install sentinel;
\* in both cases one timer runs at the error-recovery interval when the call
\* completes.
C22_IncompatibleAndRemoteSshSentinels ==
    [][\A c \in Calls :
         /\ (/\ calls[c].pc = "checkGh" /\ calls'[c].pc # "checkGh"
             /\ env.ghInstalled /\ env.incompatible)
               => /\ shown' = <<[type |-> "RemoteContainersIncompatible"]>>
                  /\ calls'[c].pc = "idle"
                  /\ PollingAt(poll', ERROR_POLL_INTERVAL_MS)
         /\ (/\ calls[c].pc = "checkSsh" /\ calls'[c].pc # "checkSsh"
             /\ ~env.remoteSsh)
               => /\ shown' = <<[type |-> "RemoteSshRequired"]>>
                  /\ calls'[c].pc = "idle"
                  /\ PollingAt(poll', ERROR_POLL_INTERVAL_MS)]_vars

\* The explorer shows the install sentinel for Remote-SSH although the
\* account holds a codespace in a transitional state, and the timer runs at
\* the error-recovery interval.
C22_Witness ==
    /\ ~env.remoteSsh
    /\ env.session = "ok"
    /\ \E k \in 1 .. Len(backend) : Transitional[backend[k].state]
    /\ shown = <<[type |-> "RemoteSshRequired"]>>
    /\ PollingAt(poll, ERROR_POLL_INTERVAL_MS)


\* The reason for which the getChildren call c, if it completes in the step
\* at hand, polls: "error", "transitional", or "" where it does not decide to.
PollReason(c) ==
    IF calls[c].pc = "checkGh"
    THEN IF env.ghInstalled /\ env.incompatible THEN "error" ELSE ""
    ELSE IF calls[c].pc = "list"
    THEN IF listCodespaces(env, backend).error.name \in {"AuthenticationError", "ScopeError"}
         THEN "error" ELSE ""
    ELSE IF calls[c].pc = "checkSsh"
    THEN IF ~env.remoteSsh THEN "error"
         ELSE IF \E state \in ListedStates(c) : Transitional[state]
         THEN "transitional" ELSE ""
    ELSE ""

\* C23: when a getChildren call completes having decided to poll, the one
\* timer scheduled afterwards has the interval of that call's reason, whatever
\* timer ran before the call completed: 3000 ms for the error sentinels,
\* 10000 ms for a listing with a transitional state.
C23_IntervalFollowsReason ==
    [][\A c \in Calls :
         (calls[c].pc # "idle" /\ calls'[c].pc = "idle")
            => /\ PollReason(c) = "error"
                    => PollingAt(poll', ERROR_POLL_INTERVAL_MS)
               /\ PollReason(c) = "transitional"
                    => PollingAt(poll', TRANSITIONAL_POLL_INTERVAL_MS)]_vars

\* A timer of the error class runs while a call that listed a codespace in a
\* transitional state is about to complete, and the other way round.
C23_Witness ==
    \/ /\ PollingAt(poll, ERROR_POLL_INTERVAL_MS)
       /\ env.remoteSsh
       /\ \E c \in Calls : calls[c].pc = "checkSsh" /\ PollReason(c) = "transitional"
    \/ /\ PollingAt(poll, TRANSITIONAL_POLL_INTERVAL_MS)
       /\ \E c \in Calls : calls[c].pc = "list" /\ PollReason(c) = "error"


(***************************************************************************)
(* Start, wait and the fetch before config generation                      *)
(***************************************************************************)

StartRequested ==
    \E k \in 1 .. Len(log) : log[k] = Entry("startCodespace", flow.latest.name, "")

\* C24: a flow that found its codespace in a state other than 'Available' and
\* waits for availability has requested the start of that codespace before.
C24_StartBeforeWait ==
    flow.pc \in {"ensure.poll", "ensure.timeout", "refresh2"} => StartRequested


GenerateCalled ==
    \E k \in 1 .. Len(log) : log[k].call = "generateSshConfig"

\* C25: config generation is requested only when the listing the flow fetched
\* last, the one after the availability wait included, showed the codespace
\* present and in state 'Available'.
C25_GenerateOnlyWhenAvailable ==
    (flow.pc = "generate" /\ GenerateCalled) => flow.seen = "Available"


(***************************************************************************)
(* The shape of the content mergeConfig writes                             *)
(***************************************************************************)

\* The number of newline characters a text ends with.
RECURSIVE TrailingNewlines(_)
TrailingNewlines(t) ==
    IF t = <<>> \/ t[Len(t)] # "\n" THEN 0
    ELSE 1 + TrailingNewlines(SubSeq(t, 1, Len(t) - 1))

\* The segments mergeConfig recombines, from the content it read.
WrittenSegments ==
    LET ex == extractManagedSection(merge.pre.content)
    IN  <<ex.before,
          CONFIG_MARKER_START \o <<"\n">> \o Trim(merge.newConfig) \o <<"\n">>
              \o CONFIG_MARKER_END,
          ex.after>>

\* C26: the content a merge wrote is the non-empty segments among 'before',
\* the new block and 'after', joined by one blank line, and it ends with
\* exactly one newline character.
C26_JoinedAndOneNewline ==
    MergeWrote =>
        /\ LET seg == WrittenSegments
               sep(k) == IF seg[k] # <<>> /\ (\E j \in (k + 1) .. 3 : seg[j] # <<>>)
                         THEN <<"\n", "\n">> ELSE <<>>
           IN  fs.content = seg[1] \o sep(1) \o seg[2] \o sep(2) \o seg[3] \o <<"\n">>
        /\ TrailingNewlines(fs.content) = 1


\* The number of occurrences of a marker in a text.
MarkerCount(t, marker) == Cardinality({k \in 1 .. Len(t) : t[k] = marker[1]})

\* The text holds one managed block: each marker once, on a line of its own,
\* the start marker first.
OneWellFormedBlock(t) ==
    /\ MarkerCount(t, CONFIG_MARKER_START) = 1
    /\ MarkerCount(t, CONFIG_MARKER_END) = 1
    /\ MarkerLines(t, CONFIG_MARKER_START) = 1
    /\ MarkerLines(t, CONFIG_MARKER_END) = 1
    /\ IndexOf(t, CONFIG_MARKER_START) < IndexOf(t, CONFIG_MARKER_END)

\* The text before the block, the text between the markers and the text after
\* the block of a text that holds one block.
AroundBlock(t) ==
    LET s == IndexOf(t, CONFIG_MARKER_START)
        e == IndexOf(t, CONFIG_MARKER_END)
    IN  [before |-> Substring(t, 0, s),
         body |-> Substring(t, s + 1, e),
         after |-> SubstringFrom(t, e + 1)]

\* C27: a merge into a file that held one well-formed managed block leaves one
\* well-formed block, whose body is the new body alone, and the texts before
\* and after the block as they were, in their places, apart from the white
\* space trimmed where they meet the block.
C27_BlockReplacedRestKept ==
    (MergeWrote /\ OneWellFormedBlock(merge.pre.content)) =>
        LET old == AroundBlock(merge.pre.content)
            new == AroundBlock(fs.content)
        IN  /\ OneWellFormedBlock(fs.content)
            /\ new.body = <<"\n">> \o Trim(merge.newConfig) \o <<"\n">>
            /\ ~Includes(fs.content, <<"old">>)
            /\ TrimEnd(new.before) = TrimEnd(old.before)
            /\ TrimStart(new.after) = TrimStart(old.after)


(***************************************************************************)
(* The connect flow when its prerequisites are missing                     *)
(***************************************************************************)

\* The messages that point the user to the fix of a failed readiness check or
\* of the incompatibility.
ReadinessPrompts ==
    {Message("error", "GitHub CLI (gh) is not installed. Please install it from https://cli.github.com/"),
     Message("prompt", "GitHub CLI authentication required. Open terminal to login?"),
     Message("prompt", "Additional GitHub scopes required for Codespaces. Refresh authentication?"),
     Message("error", "The VSCode Remote Containers extension is not supported with the Anysphere Remote SSH extension. Please switch to the Anysphere Remote Containers extension.")}

ReadinessPromptShown == \E k \in 1 .. Len(ui) : ui[k] \in ReadinessPrompts

\* The flow has ended as a return before any workspace was selected, started,
\* configured or connected to.
EndedBeforeSelection ==
    /\ flow.pc = "done"
    /\ flow.result = "returned"
    /\ flow.latest = NoCodespace
    /\ CallsPastRefresh = {}
    /\ merge = MergeIdle
    /\ remote = NoRemote

\* C28: a session that is logged out or lacks the scope makes the listing of
\* the readiness check throw the authentication or the scope error; a flow
\* that finds the CLI missing, the listing failing in one of these two ways or
\* the incompatible extension installed shows the matching prompt and ends at
\* that step, as a return, whether or not the user takes up the remedy; and a
\* flow that showed one of these prompts made no selection, start, config
\* generation, merge or connect.
C28_ReadinessFailureEnds ==
    /\ [](/\ \A w \in FlowWorlds :
               /\ (env.ghInstalled /\ w[1] = "loggedOut")
                     => Seen(w).error.name = "AuthenticationError"
               /\ (env.ghInstalled /\ w[1] = "noScope")
                     => Seen(w).error.name = "ScopeError"
          /\ ReadinessPromptShown => EndedBeforeSelection)
    /\ [][/\ (flow.pc = "ready.gh" /\ ~env.ghInstalled)
               => (flow'.pc = "done" /\ Len(ui') = 1 /\ ui'[1] \in ReadinessPrompts)
          /\ (flow.pc = "ready.list" /\ flow'.pc # "ready.list")
               => \/ flow'.pc = "sshReady" /\ ~env.incompatible /\ ui' = ui
                  \/ flow'.pc = "done" /\ Len(ui') >= 1 /\ ui'[1] \in ReadinessPrompts]_vars

\* The flow ended after the user took up the remedy: the login terminal was
\* opened, or the switch to the supported extension was invoked.
C28_Witness ==
    /\ EndedBeforeSelection
    /\ \/ Last(ui) = Message("info", "Please complete the GitHub login in the terminal, then try connecting again.")
       \/ /\ env.incompatible
          /\ Last(log) = Entry("switchToAnysphereRemoteContainers", "", "")


RemoteSshGuidanceShown ==
    \E k \in 1 .. Len(ui) : Includes(ui[k].text, "Remote-SSH")

\* C29: a flow that ends where Remote-SSH is unavailable has shown the user
\* the guidance to install it, unless it ended earlier on a readiness prompt,
\* and has performed no later stage.
C29_RemoteSshGuidance ==
    (flow.pc = "done" /\ ~env.remoteSsh) =>
        /\ ReadinessPromptShown \/ RemoteSshGuidanceShown
        /\ EndedBeforeSelection


(***************************************************************************)
(* The failures of config generation                                       *)
(***************************************************************************)

\* The flow offered to add the SSH server to the devcontainer configuration.
SshdFixOffered ==
    \E k \in 1 .. Len(ui) :
        ui[k] = Message("prompt", "SSHD is not configured in your Codespace. Would you like to add it to your devcontainer configuration?")

\* C30: the fix of the devcontainer is offered exactly when config generation
\* failed because the codespace runs no SSH server, and the flow then ends
\* without merge or connect; a generation that failed otherwise, as for a
\* missing key file, ends the flow with an error message and no such offer.
C30_SshdFixExactly ==
    /\ SshdFixOffered <=> (flow.pc = "done" /\ flow.gen = "sshd")
    /\ SshdFixOffered =>
          /\ flow.result = "returned"
          /\ ~MergeCalled /\ ~ConnectCalled
          /\ merge = MergeIdle /\ remote = NoRemote
    /\ (flow.pc = "done" /\ flow.gen \in {"http", "nokey"}) =>
          /\ flow.result = "error"
          /\ Last(ui).kind = "error"
          /\ ~MergeCalled /\ ~ConnectCalled


\* An error message or a remediation prompt is among the messages shown.
ErrorOrPromptShown == \E i \in DOMAIN ui : ui[i].kind \in {"error", "prompt"}

\* C31: every failure of a backend or collaborator call made during the
\* connect flow (list, start, config generation, merge, connect) leads to a
\* user-visible error message or remediation prompt: a flow that has ended
\* after one of its calls failed has shown an error or a prompt.
C31_NoFailureSwallowed ==
    flow.pc = "done" /\ flow.failed => ErrorOrPromptShown


(***************************************************************************)
(* ghService.ts: the methods that take a codespace name, called directly   *)
(***************************************************************************)

\* The methods of GhService that build a command line from a codespace name.
NameOps ==
    {"startCodespace", "stopCodespace", "deleteCodespace",
     "ensureCodespaceAvailable", "generateSshConfig"}

\* The command line a method hands to execAsync.
Command(op, arg) ==
    CASE op = "startCodespace" -> "gh api -X POST user/codespaces/" \o arg \o "/start"
      [] op = "stopCodespace" -> "gh api -X POST user/codespaces/" \o arg \o "/stop"
      [] op = "deleteCodespace" -> "gh api -X DELETE user/codespaces/" \o arg
      [] op = "generateSshConfig" -> "gh codespace ssh --config -c " \o arg
      [] op = "keyCheck" ->
           "timeout 5 gh codespace ssh -c " \o arg \o " -- echo \"key-check\" 2>&1 || true"
      [] OTHER -> "gh codespace list --json name,displayName,state,lastUsedAt,repository"

\* The names the methods are called with: of a codespace of the account, of
\* one that is gone, and strings that are no codespace names.
ServiceNames == {"abc123", "gone_1-x", "", "abc 123", "abc123;id", "../abc123", "abc123\n"}

\* What a process that exits with a failure wrote to stderr; "" is a process
\* that could not be started.
ExitTexts ==
    {"gh: Codespace is already running (HTTP 409)",
     "gh: Codespace is already stopped (HTTP 409)",
     "gh: Codespace is not running (HTTP 409)",
     "gh: Not Found (HTTP 404)",
     "gh: Server Error (HTTP 500)",
     ""}

\* The error execAsync rejects with when the command failed.
ExitFailure(command, stderr) ==
    [stderr |-> stderr, message |-> "Command failed: " \o command \o "\n" \o stderr]

\* The catch clause of startCodespace: "ok" where it returns, the message of
\* the error where it throws.
startCodespaceCatch(error) ==
    LET errorMessage == OrElse(error.stderr, error.message)
    IN  IF Includes(errorMessage, "already running") \/ Includes(errorMessage, "already started")
        THEN "ok"
        ELSE "Failed to start codespace: " \o error.message

\* The catch clause of stopCodespace.
stopCodespaceCatch(error) ==
    LET errorMessage == OrElse(error.stderr, error.message)
    IN  IF Includes(errorMessage, "already stopped") \/ Includes(errorMessage, "not running")
        THEN "ok"
        ELSE "Failed to stop codespace: " \o error.message

\* The catch clause of deleteCodespace.
deleteCodespaceCatch(error) == "Failed to delete codespace: " \o error.message

\* The process exec started is added to the record; an immediate repetition
\* of the same command line is not recorded again.
Exec(command) ==
    exec' = IF exec # <<>> /\ exec[Len(exec)] = command THEN exec ELSE Append(exec, command)

\* A slip in the methods: the name is checked after the process was started.
ServiceCall_checksLate(op, arg) ==
    /\ service.pc \in {"idle", "done"}
    /\ service' = [pc |-> IF op = "ensureCodespaceAvailable" THEN "ensure.first" ELSE "exec",
                   op |-> op, arg |-> arg, result |-> "", attempt |-> 0,
                   seen |-> "", stderr |-> ""]
    /\ exec' = <<Command(IF op = "ensureCodespaceAvailable" THEN "listCodespaces" ELSE op,
                         arg)>>
    /\ UNCHANGED <<picker, mergeVars, worldVars, explorerVars, flowVars, commandVars>>

\* A method is called with a name: the name is tested and the method throws,
\* or its first process is started.
ServiceCall(op, arg) ==
    /\ service.pc \in {"idle", "done"}
    /\ IF ~ValidName(arg)
       THEN /\ service' = [pc |-> "done", op |-> op, arg |-> arg,
                           result |-> "Invalid codespace name format", attempt |-> 0,
                           seen |-> "", stderr |-> ""]
            /\ exec' = <<>>
       ELSE /\ service' = [pc |-> IF op = "ensureCodespaceAvailable"
                                  THEN "ensure.first" ELSE "exec",
                           op |-> op, arg |-> arg, result |-> "", attempt |-> 0,
                           seen |-> "", stderr |-> ""]
            /\ exec' = <<Command(IF op = "ensureCodespaceAvailable"
                                 THEN "listCodespaces" ELSE op, arg)>>
    /\ UNCHANGED <<picker, mergeVars, worldVars, explorerVars, flowVars, commandVars>>

\* The process of startCodespace, stopCodespace or deleteCodespace exits.
ServiceExit(succeeded, stderr) ==
    LET error == ExitFailure(exec[Len(exec)], stderr)
    IN  /\ service.pc = "exec"
        /\ service.op \in {"startCodespace", "stopCodespace", "deleteCodespace"}
        /\ succeeded => stderr = ""
        /\ service' = [service EXCEPT
               !.pc = "done",
               !.stderr = stderr,
               !.result = IF succeeded THEN "ok"
                          ELSE IF service.op = "startCodespace" THEN startCodespaceCatch(error)
                          ELSE IF service.op = "stopCodespace" THEN stopCodespaceCatch(error)
                          ELSE deleteCodespaceCatch(error)]
        /\ UNCHANGED <<exec, picker, mergeVars, worldVars, explorerVars, flowVars, commandVars>>

\* 'gh codespace ssh --config' exits; where the key file it names is missing
\* the key check is started.
ServiceGenerated(outcome) ==
    /\ service.pc = "exec"
    /\ service.op = "generateSshConfig"
    /\ IF outcome = "nokey"
       THEN /\ service' = [service EXCEPT !.pc = "keyCheck"]
            /\ Exec(Command("keyCheck", service.arg))
       ELSE /\ service' = [service EXCEPT
                   !.pc = "done",
                   !.stderr = IF outcome = "ok" THEN "" ELSE GenFailure(outcome).stderr,
                   !.result = IF outcome = "ok" THEN "ok"
                              ELSE generateSshConfigCatch(GenFailure(outcome))]
            /\ UNCHANGED exec
    /\ UNCHANGED <<picker, mergeVars, worldVars, explorerVars, flowVars, commandVars>>

\* The key check is over, whatever its exit: the key file exists now or the
\* method throws.
ServiceKeyChecked(created) ==
    /\ service.pc = "keyCheck"
    /\ service' = [service EXCEPT
           !.pc = "done",
           !.result = IF created THEN "ok"
                      ELSE generateSshConfigCatch(GenFailure("nokey"))]
    /\ UNCHANGED <<exec, picker, mergeVars, worldVars, explorerVars, flowVars, commandVars>>

\* ensureCodespaceAvailable: its first listing arrives; a codespace that is
\* shut down is started.
ServiceEnsureFirst(w) ==
    LET l == Seen(w)
        codespace == FindByName(l.value, service.arg)
    IN  /\ service.pc = "ensure.first"
        /\ IF l.error # NoThrow
           THEN /\ service' = [service EXCEPT !.pc = "done", !.result = l.error.message]
                /\ UNCHANGED exec
           ELSE IF codespace # NoCodespace /\ codespace.state = "Shutdown"
           THEN /\ service' = [service EXCEPT !.pc = "ensure.start", !.seen = codespace.state]
                /\ Exec(Command("startCodespace", service.arg))
           ELSE /\ service' = [service EXCEPT !.pc = "ensure.poll", !.seen = codespace.state]
                /\ Exec(Command("listCodespaces", ""))
        /\ UNCHANGED <<picker, mergeVars, worldVars, explorerVars, flowVars, commandVars>>

\* ensureCodespaceAvailable: the start request is over; what startCodespace
\* throws is only written to the console, and the polling begins.
ServiceEnsureStarted(succeeded, stderr) ==
    /\ service.pc = "ensure.start"
    /\ succeeded => stderr = ""
    /\ service' = [service EXCEPT !.pc = "ensure.poll", !.stderr = stderr]
    /\ Exec(Command("listCodespaces", ""))
    /\ UNCHANGED <<picker, mergeVars, worldVars, explorerVars, flowVars, commandVars>>

\* A slip in the loop: it returns as soon as the codespace is listed and no
\* longer shut down.
ServiceEnsurePolled_notShutdown(w) ==
    LET l == Seen(w)
        codespace == FindByName(l.value, service.arg)
    IN  /\ service.pc = "ensure.poll"
        /\ IF l.error # NoThrow
           THEN /\ service' = [service EXCEPT !.pc = "done", !.result = l.error.message]
                /\ UNCHANGED exec
           ELSE IF codespace # NoCodespace /\ codespace.state # "Shutdown"
           THEN /\ service' = [service EXCEPT !.pc = "done", !.result = "ok",
                                              !.seen = codespace.state]
                /\ UNCHANGED exec
           ELSE /\ service' = [service EXCEPT
                       !.pc = IF PollAgain(service.attempt + 1)
                              THEN "ensure.poll" ELSE "ensure.timeout",
                       !.attempt = service.attempt + 1,
                       !.seen = codespace.state]
                /\ Exec(Command("listCodespaces", ""))
        /\ UNCHANGED <<picker, mergeVars, worldVars, explorerVars, flowVars, commandVars>>

\* ensureCodespaceAvailable: one turn of the loop.
ServiceEnsurePolled(w) ==
    LET l == Seen(w)
        codespace == FindByName(l.value, service.arg)
    IN  /\ service.pc = "ensure.poll"
        /\ IF l.error # NoThrow
           THEN /\ service' = [service EXCEPT !.pc = "done", !.result = l.error.message]
                /\ UNCHANGED exec
           ELSE IF codespace # NoCodespace /\ codespace.state = "Available"
           THEN /\ service' = [service EXCEPT !.pc = "done", !.result = "ok",
                                              !.seen = codespace.state]
                /\ UNCHANGED exec
           ELSE /\ service' = [service EXCEPT
                       !.pc = IF PollAgain(service.attempt + 1)
                              THEN "ensure.poll" ELSE "ensure.timeout",
                       !.attempt = service.attempt + 1,
                       !.seen = codespace.state]
                /\ Exec(Command("listCodespaces", ""))
        /\ UNCHANGED <<picker, mergeVars, worldVars, explorerVars, flowVars, commandVars>>

\* ensureCodespaceAvailable: the loop has ended; the listing for the message
\* arrives and the timeout error is thrown.
ServiceEnsureTimedOut(w) ==
    LET l == Seen(w)
    IN  /\ service.pc = "ensure.timeout"
        /\ service' = [service EXCEPT
               !.pc = "done",
               !.result = IF l.error # NoThrow THEN l.error.message
                          ELSE TimeoutError(l.value, service.arg)]
        /\ UNCHANGED <<exec, picker, mergeVars, worldVars, explorerVars, flowVars, commandVars>>

InitService ==
    /\ fs = [dir |-> TRUE, exists |-> FALSE, content |-> <<>>]
    /\ merge = MergeIdle
    /\ env = GoodEnv
    /\ backend = <<>>
    /\ ExplorerIdle
    /\ FlowIdle
    /\ CommandsIdle
    /\ ServiceIdle

NextService ==
    \/ \E op \in NameOps, arg \in ServiceNames : ServiceCall(op, arg)
    \/ \E succeeded \in BOOLEAN, stderr \in ExitTexts : ServiceExit(succeeded, stderr)
    \/ \E outcome \in GenOutcomes : ServiceGenerated(outcome)
    \/ \E created \in BOOLEAN : ServiceKeyChecked(created)
    \/ \E w \in FlowWorlds : ServiceEnsureFirst(w)
    \/ \E succeeded \in BOOLEAN, stderr \in ExitTexts : ServiceEnsureStarted(succeeded, stderr)
    \/ \E w \in FlowWorlds : ServiceEnsurePolled(w)
    \/ \E w \in FlowWorlds : ServiceEnsureTimedOut(w)

SpecService == InitService /\ [][NextService]_vars

\* The strings among ServiceNames that are no codespace names.
InvalidNames == {"", "abc 123", "abc123;id", "../abc123", "abc123\n"}

\* C32: a workspace name that does not match ^[A-Za-z0-9_-]+$ is never placed
\* into a backend command: start, stop, delete, availability wait and config
\* generation each fail with the invalid-name error before any process is
\* invoked.
C32_InvalidNameNeverExecuted ==
    service.op \in NameOps /\ service.arg \in InvalidNames
        => /\ service.pc = "done"
           /\ service.result = "Invalid codespace name format"
           /\ exec = <<>>

\* deleteCodespace was called with a name that holds a shell separator and
\* has thrown.
C32_Witness ==
    /\ service.pc = "done"
    /\ service.op = "deleteCodespace"
    /\ service.arg = "abc123;id"
    /\ service.result = "Invalid codespace name format"


\* The failed process said the codespace is already in the state the method
\* was to bring about.
AlreadyInThatState ==
    \/ service.op = "startCodespace"
          /\ service.stderr = "gh: Codespace is already running (HTTP 409)"
    \/ service.op = "stopCodespace"
          /\ service.stderr \in {"gh: Codespace is already stopped (HTTP 409)",
                                 "gh: Codespace is not running (HTTP 409)"}
    \/ service.op = "deleteCodespace"
          /\ service.stderr = "gh: Not Found (HTTP 404)"

\* C34: start, stop and delete are idempotent on 'already in that state': a
\* backend failure saying the workspace is already running, already stopped or
\* already gone is returned as success, not as an error.
C34_AlreadyInStateIsSuccess ==
    service.pc = "done" /\ AlreadyInThatState => service.result = "ok"


\* The start requests among the processes of the method called last.
StartRequests == {i \in DOMAIN exec : exec[i] = Command("startCodespace", service.arg)}

\* ensureCodespaceAvailable has returned normally.
EnsureReturned ==
    /\ service.op = "ensureCodespaceAvailable"
    /\ service.pc = "done"
    /\ service.result = "ok"

\* C39: ensureCodespaceAvailable returns normally only after a status poll in
\* which the named workspace was present with state exactly 'Available'; a
\* workspace missing from the list or in any other state keeps it polling
\* until the attempt ceiling, and at most one start request is sent per
\* invocation.
C39_ReturnsOnlyWhenAvailable ==
    /\ [](EnsureReturned => service.seen = "Available")
    /\ [](service.pc = "ensure.timeout" => service.attempt = maxAttempts)
    /\ [](service.op = "ensureCodespaceAvailable" => Cardinality(StartRequests) <= 1)
    /\ [][service.pc = "ensure.poll" /\ service'.result = ""
              /\ service'.seen # "Available"
            => /\ service'.attempt = service.attempt + 1
               /\ service'.pc = IF service'.attempt < maxAttempts
                                THEN "ensure.poll" ELSE "ensure.timeout"]_vars

\* The method started the codespace, polled more than once and returned when
\* a poll showed it available.
C39_Witness ==
    /\ EnsureReturned
    /\ service.attempt > 1
    /\ Cardinality(StartRequests) = 1


\* How often the flow has made the call.
CallCount(call) == Cardinality({k \in 1 .. Len(log) : log[k].call = call})

\* The place of the call in the log; 0 where it was not made.
CallIndex(call) ==
    IF \E k \in 1 .. Len(log) : log[k].call = call
    THEN CHOOSE k \in 1 .. Len(log) : log[k].call = call
    ELSE 0

\* C35: in every run of the connect flow the stages occur at most once each
\* and only in the stated order: connectToHost is called only after mergeConfig
\* completed successfully, mergeConfig only after config generation returned a
\* config, and config generation only after the readiness, incompatibility and
\* connector checks passed; every invocation terminates.
C35_StagesOnceInOrder ==
    /\ [](\A call \in {"startCodespace", "generateSshConfig", "mergeConfig", "connectToHost"} :
             CallCount(call) <= 1)
    /\ [](ConnectCalled =>
             /\ MergeCalled
             /\ CallIndex("mergeConfig") < CallIndex("connectToHost")
             /\ merge.pc = "done"
             /\ merge.error = NoError)
    /\ [](MergeCalled =>
             /\ GenerateCalled
             /\ CallIndex("generateSshConfig") < CallIndex("mergeConfig")
             /\ flow.gen = "ok")
    /\ [](GenerateCalled =>
             /\ env.ghInstalled
             /\ ~env.incompatible
             /\ env.remoteSsh
             /\ ~ReadinessPromptShown)
    /\ (flow.pc # "idle" ~> flow.pc = "done")

\* A flow went through every stage: it started the codespace, generated the
\* config, merged it after the user's consent and connected.
C35_Witness ==
    /\ flow.result = "connected"
    /\ CallCount("startCodespace") = 1
    /\ GenerateCalled
    /\ MergeCalled
    /\ ConnectCalled
    /\ merge.asked
    /\ ~flow.failed


\* C38: a getChildren call that finds the CLI absent leaves the polling timer
\* exactly as it was: it neither starts a timer nor stops one left active by an
\* earlier call.
C38_AbsentCliLeavesTimer ==
    [][(\E c \in Calls : calls[c].pc = "checkGh" /\ calls'[c].pc = "idle") /\ ~env.ghInstalled
          => /\ poll'.timers = poll.timers
             /\ poll'.pollingInterval = poll.pollingInterval
             /\ NotPolling(poll) => NotPolling(poll')
             /\ \A ms \in {ERROR_POLL_INTERVAL_MS, TRANSITIONAL_POLL_INTERVAL_MS} :
                   PollingAt(poll, ms) => PollingAt(poll', ms)]_vars

\* The CLI is absent, every call has completed with the installation sentinel
\* on show, and the timer an earlier call started is still running.
C38_Witness ==
    /\ ~env.ghInstalled
    /\ shown = <<[type |-> "InstallationInstructions"]>>
    /\ \A c \in Calls : calls[c].pc = "idle"
    /\ poll.timers # {}


\* C37: when getChildren calls overlap, the polling decision in force after
\* all of them have completed is that of the call that was started last, not
\* that of an older call that finished later: a call that completes last,
\* after the call started last has completed and left the timer as it is now,
\* leaves the timer as it is.
C37_LastStartedDecides ==
    [][\A c \in Calls :
         (/\ calls[c].pc # "idle"
          /\ calls[c].overtaken
          /\ \A d \in Calls : calls'[d].pc = "idle")
            => poll' = poll]_vars


\* Every enumeration succeeds, the connector is available and no codespace of
\* the account is in a transitional state.
Quiet ==
    /\ env = GoodEnv
    /\ listCodespaces(env, backend).error = NoThrow
    /\ \A k \in 1 .. Len(backend) : ~Transitional[backend[k].state]

\* C36: if from some point on every enumeration succeeds with the connector
\* available and no workspace in a transitional state, then once the next
\* getChildren call completes no timer is active and no further timer tick
\* occurs until a later getChildren call finds a reason to poll: a call that
\* completes with such an enumeration leaves no timer, without a timer no tick
\* can occur, a timer appears only when a call completes with a reason to
\* poll, and if that state of the world lasts the explorer, unless it is
\* disposed, comes to have no timer for good.
C36_IdleWhenNothingHappens ==
    /\ [][\A c \in Calls :
            (/\ calls[c].pc = "checkSsh" /\ calls'[c].pc = "idle"
             /\ env.remoteSsh
             /\ \A state \in ListedStates(c) : ~Transitional[state])
               => NotPolling(poll')]_vars
    /\ [](NotPolling(poll) => ~ENABLED TimerTick)
    /\ [][(NotPolling(poll) /\ ~NotPolling(poll'))
            => \E c \in Calls : /\ calls[c].pc # "idle"
                                /\ calls'[c].pc = "idle"
                                /\ PollReason(c) # ""]_vars
    /\ (<>[](Quiet /\ ~disposed) => <>[]NotPolling(poll))

\* Nothing is happening: the list is on show with the codespaces of the
\* account, none transitional, no call is in flight, no refresh is due and no
\* timer runs.
C36_Witness ==
    /\ Quiet
    /\ backend # <<>>
    /\ Len(shown) = Len(backend) + 1
    /\ shown[1].type = "CreateCodespace"
    /\ \A c \in Calls : calls[c].pc = "idle"
    /\ ~treeDirty
    /\ ~disposed
    /\ NotPolling(poll)


(***************************************************************************)
(* The create command: its quick picks and the requests they issue         *)
(***************************************************************************)

\* query.trim() on a string, for the white space a user can type.
TrimString(str) ==
    LET keep == {k \in 1 .. Len(str) : SubSeq(str, k, k) \notin {" ", "\n", "\t"}}
    IN  IF keep = {} THEN ""
        ELSE SubSeq(str, CHOOSE k \in keep : \A j \in keep : k <= j,
                         CHOOSE k \in keep : \A j \in keep : j <= k)

\* The characters encodeURIComponent leaves as they are.
UriUnreserved ==
    LET all == "abcdefghijklmnopqrstuvwxyzABCDEFGHIJKLMNOPQRSTUVWXYZ0123456789-_.!~*'()"
    IN  {SubSeq(all, k, k) : k \in 1 .. Len(all)}

\* The escape of a character that is not left as it is.
UriEscape(ch) ==
    CASE ch = " " -> "%20"
      [] ch = "/" -> "%2F"
      [] ch = ";" -> "%3B"
      [] ch = ":" -> "%3A"
      [] ch = "$" -> "%24"
      [] ch = "&" -> "%26"
      [] ch = "\"" -> "%22"
      [] OTHER -> "%3F"

RECURSIVE encodeURIComponent(_)
\* encodeURIComponent(str)
encodeURIComponent(str) ==
    IF str = "" THEN ""
    ELSE LET ch == SubSeq(str, 1, 1)
         IN  (IF ch \in UriUnreserved THEN ch ELSE UriEscape(ch))
             \o encodeURIComponent(SubSeq(str, 2, Len(str)))

\* The command lines of the methods the create command calls.
RecentRepositoriesCommand == "gh repo list --json nameWithOwner,description --limit 10"

SearchRepositoriesCommand(query, scope) ==
    "gh api \"search/repositories?q=" \o encodeURIComponent(query) \o scope
    \o "&per_page=20\" --jq \".items | map({nameWithOwner: .full_name, description: .description})\""

RecentBranchesCommand(repo) ==
    "gh api \"repos/" \o repo \o "/branches?per_page=10\" --jq \".[].name\""

SearchBranchesCommand(repo) ==
    "gh api \"repos/" \o repo \o "/branches?per_page=100\" --paginate --jq \".[].name\""

MachineTypesCommand(repo) ==
    "gh api \"repos/" \o repo \o "/codespaces/machines\" --jq \".machines | map({name: .name, displayName: .display_name, cpus: .cpus, memoryInGb: .memory_in_bytes / 1073741824})\""

CreateCommand(repo, branch, machine) ==
    "gh codespace create --repo " \o repo
    \o (IF branch # "" THEN " --branch " \o branch ELSE "")
    \o (IF machine # "" THEN " --machine " \o machine ELSE "")

\* What the user can type into the repository quick pick and into the branch
\* quick pick.
RepoValues == {"", "a ", "acme/w;id"}

BranchValues == {"", "dev"}

\* The repository and the branch the lists of the backend offer, and the
\* machine type it offers.
ListedRepository == "acme/widgets"

ListedBranch == "main"

ListedMachine == "basicLinux32gb"

\* The text length below which a quick pick lists instead of searching.
SearchFrom(stage) == IF stage = "repo" THEN 2 ELSE 1

\* How a request can be answered: with items, with none, or with a failure.
Answers == {"items", "empty", "fail"}

\* A request of the quick pick of the given stage: requestId, what it asks
\* and how far the method that serves it has got.
Request(stage, id, kind, query, phase) ==
    [stage |-> stage, id |-> id, kind |-> kind, query |-> query, phase |-> phase]

\* The requests the quick picks can issue.
Requests ==
    {Request(stage, id, kind, query, phase) :
        stage \in {"repo", "branch"}, id \in 1 .. MaxRequests,
        kind \in {"recent", "search"}, query \in RepoValues \cup BranchValues,
        phase \in {"list", "search", "searchAll"}}

\* The command the method starts first for a list or search request.
FirstCommand(stage, repo, kind, query) ==
    IF stage = "repo"
    THEN IF kind = "recent" \/ Len(TrimString(query)) < 2
         THEN RecentRepositoriesCommand
         ELSE SearchRepositoriesCommand(query, "+user:@me+fork:true")
    ELSE IF kind = "recent" \/ Len(TrimString(query)) < 1
         THEN RecentBranchesCommand(repo)
         ELSE SearchBranchesCommand(repo)

\* The phase a request starts in: a search that the method serves by
\* listing counts as a listing.
FirstPhase(stage, kind, query) ==
    IF kind = "search" /\ stage = "repo" /\ Len(TrimString(query)) >= 2
    THEN "search" ELSE "list"

\* What becomes of a request in flight when its process exits: it goes on
\* with another process, or it is settled, resolved or rejected.
\*   searchRepositories: an empty answer is followed by the search in all
\*   repositories, a failure by the listing; a failure of the listing rejects.
\*   listRecentBranches, searchBranches: never reject.
Settle(r, answer) ==
    IF r.stage = "repo"
    THEN IF r.phase = "search"
         THEN IF answer = "items" THEN [next |-> "", resolved |-> TRUE, result |-> "items"]
              ELSE IF answer = "empty" THEN [next |-> "searchAll", resolved |-> FALSE, result |-> ""]
              ELSE [next |-> "list", resolved |-> FALSE, result |-> ""]
         ELSE IF r.phase = "searchAll"
         THEN IF answer = "fail" THEN [next |-> "list", resolved |-> FALSE, result |-> ""]
              ELSE [next |-> "", resolved |-> TRUE, result |-> answer]
         ELSE IF answer = "fail" THEN [next |-> "", resolved |-> FALSE, result |-> "fail"]
              ELSE [next |-> "", resolved |-> TRUE, result |-> answer]
    ELSE [next |-> "", resolved |-> TRUE,
          result |-> IF answer = "fail" /\ r.phase = "list" THEN "items"
                     ELSE IF answer = "fail" THEN "empty" ELSE answer]

\* The command of the process a request goes on with.
NextCommand(r, next) ==
    IF next = "searchAll" THEN SearchRepositoriesCommand(r.query, "+in:name")
    ELSE RecentRepositoriesCommand

\* A slip in the handlers of the responses: the result is applied whatever
\* request is the current one.
Apply_unguarded(p, r, settled) ==
    IF settled.resolved
    THEN [p EXCEPT !.items = [stage |-> r.stage, from |-> r.id, kind |-> r.kind,
                              query |-> r.query, result |-> settled.result],
                   !.busy = FALSE]
    ELSE [p EXCEPT !.busy = FALSE]

\* The handler of a settled request on the quick pick p: the then and catch
\* callbacks of the list requests, the rest of the timer callback for a
\* search. A request of a quick pick that is gone finds its isDisposed set.
Apply(p, r, settled) ==
    IF r.stage # p.stage \/ p.isDisposed \/ p.currentRequestId # r.id
    THEN IF r.stage = p.stage /\ r.kind = "search" /\ ~settled.resolved
              /\ p.currentRequestId = r.id
         THEN [p EXCEPT !.busy = FALSE]
         ELSE p
    ELSE IF settled.resolved
    THEN [p EXCEPT !.items = [stage |-> r.stage, from |-> r.id, kind |-> r.kind,
                              query |-> r.query, result |-> settled.result],
                   !.busy = FALSE]
    ELSE IF r.kind = "recent" /\ r.id = 1
    THEN [p EXCEPT !.items = NoItems, !.busy = FALSE]
    ELSE [p EXCEPT !.busy = FALSE]

\* The quick pick of a stage as it is shown: the first request, for the
\* listing, is issued with requestId 1.
Opened(p, stage) ==
    [p EXCEPT !.stage = stage, !.value = "", !.currentRequestId = 1,
              !.isDisposed = FALSE, !.busy = TRUE, !.items = NoItems,
              !.searchTimeout = 0,
              !.inflight = @ \cup {Request(stage, 1, "recent", "", "list")}]

\* cursorCodespaces.createCodespace is run: ensureReady, then the repository
\* quick pick is shown and the recent repositories are requested.
CreateInvoke(w, accept) ==
    LET l == Seen(w)
    IN  /\ picker.stage = "idle"
        /\ IF ~env.ghInstalled
           THEN /\ ui' = Append(ui, Message("error", "GitHub CLI (gh) is not installed. Please install it from https://cli.github.com/"))
                /\ picker' = [picker EXCEPT !.stage = "done", !.outcome = "notReady"]
                /\ UNCHANGED exec
           ELSE IF l.error.name = "AuthenticationError" \/ l.error.message = "AUTHENTICATION_REQUIRED"
           THEN /\ ui' = ui \o promptLogin(accept)
                /\ picker' = [picker EXCEPT !.stage = "done", !.outcome = "notReady"]
                /\ Exec(Command("listCodespaces", ""))
           ELSE IF l.error.name = "ScopeError" \/ l.error.message = "SCOPE_REQUIRED"
           THEN /\ ui' = ui \o promptRefreshScopes(accept)
                /\ picker' = [picker EXCEPT !.stage = "done", !.outcome = "notReady"]
                /\ Exec(Command("listCodespaces", ""))
           ELSE /\ accept
                /\ picker' = Opened(picker, "repo")
                /\ exec' = exec \o <<Command("listCodespaces", ""), RecentRepositoriesCommand>>
                /\ UNCHANGED ui
        /\ UNCHANGED <<service, flow, log, remote, mergeVars, worldVars, explorerVars, commandVars>>

\* onDidChangeValue: the pending timer is cleared and a new request is made,
\* at once for a short text, after the debounce delay for a search.
PickerChangeValue(value) ==
    LET requestId == picker.currentRequestId + 1
    IN  /\ picker.stage \in {"repo", "branch"}
        /\ value \in (IF picker.stage = "repo" THEN RepoValues ELSE BranchValues)
        /\ value # picker.value
        /\ picker.currentRequestId < MaxRequests
        /\ IF Len(value) < SearchFrom(picker.stage)
           THEN /\ picker' = [picker EXCEPT
                       !.value = value,
                       !.currentRequestId = requestId,
                       !.searchTimeout = 0,
                       !.busy = TRUE,
                       !.inflight = @ \cup {Request(picker.stage, requestId, "recent",
                                                    value, "list")}]
                /\ Exec(FirstCommand(picker.stage, picker.repo, "recent", value))
           ELSE /\ picker' = [picker EXCEPT
                       !.value = value,
                       !.currentRequestId = requestId,
                       !.searchTimeout = requestId]
                /\ UNCHANGED exec
        /\ UNCHANGED <<service, mergeVars, worldVars, explorerVars, flowVars, commandVars>>

\* The debounce timer fires: the search is started unless the request is no
\* longer the current one.
PickerTimerFired ==
    LET requestId == picker.searchTimeout
    IN  /\ picker.stage \in {"repo", "branch"}
        /\ requestId # 0
        /\ IF picker.isDisposed \/ picker.currentRequestId # requestId
           THEN /\ picker' = [picker EXCEPT !.searchTimeout = 0]
                /\ UNCHANGED exec
           ELSE /\ picker' = [picker EXCEPT
                       !.searchTimeout = 0,
                       !.busy = TRUE,
                       !.inflight = @ \cup
                           {Request(picker.stage, requestId, "search", picker.value,
                                    FirstPhase(picker.stage, "search", picker.value))}]
                /\ Exec(FirstCommand(picker.stage, picker.repo, "search", picker.value))
        /\ UNCHANGED <<service, mergeVars, worldVars, explorerVars, flowVars, commandVars>>

\* The process of a request in flight exits: the method goes on with another
\* process, or the request is settled and its handler runs.
PickerResponse(r, answer) ==
    LET settled == Settle(r, answer)
    IN  /\ r \in picker.inflight
        /\ IF settled.next # ""
           THEN /\ picker' = [picker EXCEPT
                       !.inflight = (@ \ {r}) \cup {[r EXCEPT !.phase = settled.next]}]
                /\ Exec(NextCommand(r, settled.next))
           ELSE /\ picker' = [Apply(picker, r, settled) EXCEPT !.inflight = @ \ {r}]
                /\ UNCHANGED exec
        /\ UNCHANGED <<service, mergeVars, worldVars, explorerVars, flowVars, commandVars>>

\* onDidAccept, and the onDidHide that the disposal of the quick pick fires:
\* the choice is resolved; with a repository the branch quick pick is shown,
\* with a branch (or the default one) the machine types are requested.
PickerAccept(selected, default) ==
    LET hasItems == picker.items.result = "items"
        hidden == [picker EXCEPT !.isDisposed = TRUE, !.searchTimeout = 0]
        repo == IF selected THEN ListedRepository
                ELSE IF Includes(picker.value, "/") THEN picker.value
                ELSE ""
        branch == IF selected THEN (IF default THEN "" ELSE ListedBranch)
                  ELSE picker.value
    IN  /\ picker.stage \in {"repo", "branch"}
        /\ ~picker.isDisposed
        /\ selected => hasItems \/ (picker.stage = "branch" /\ picker.items.from # 0)
        /\ default => selected /\ picker.stage = "branch"
        /\ (selected /\ picker.stage = "branch" /\ ~hasItems) => default
        /\ IF picker.stage = "repo"
           THEN IF repo = ""
                THEN /\ picker' = [hidden EXCEPT !.stage = "done", !.outcome = "cancelled"]
                     /\ UNCHANGED exec
                ELSE /\ picker' = Opened([hidden EXCEPT !.repo = repo], "branch")
                     /\ Exec(RecentBranchesCommand(repo))
           ELSE /\ picker' = [hidden EXCEPT !.stage = "machines", !.branch = branch]
                /\ Exec(MachineTypesCommand(picker.repo))
        /\ UNCHANGED <<service, mergeVars, worldVars, explorerVars, flowVars, commandVars>>

\* onDidHide without an accept: the command returns.
PickerHide ==
    /\ picker.stage \in {"repo", "branch"}
    /\ ~picker.isDisposed
    /\ picker' = [picker EXCEPT !.isDisposed = TRUE, !.searchTimeout = 0,
                                !.stage = "done", !.outcome = "cancelled"]
    /\ UNCHANGED <<service, exec, mergeVars, worldVars, explorerVars, flowVars, commandVars>>

\* listMachineTypes resolves, with machine types or with none (also when its
\* process failed); with none the codespace is created at once.
MachinesListed(answer) ==
    /\ picker.stage = "machines"
    /\ IF answer = "items"
       THEN /\ picker' = [picker EXCEPT !.stage = "pickMachine"]
            /\ UNCHANGED exec
       ELSE /\ picker' = [picker EXCEPT !.stage = "creating"]
            /\ Exec(CreateCommand(picker.repo, picker.branch, ""))
    /\ UNCHANGED <<service, mergeVars, worldVars, explorerVars, flowVars, commandVars>>

\* The machine type is picked, or its quick pick is dismissed.
MachinePicked(picked) ==
    /\ picker.stage = "pickMachine"
    /\ IF picked
       THEN /\ picker' = [picker EXCEPT !.stage = "creating", !.machine = ListedMachine]
            /\ Exec(CreateCommand(picker.repo, picker.branch, ListedMachine))
       ELSE /\ picker' = [picker EXCEPT !.stage = "done", !.outcome = "cancelled"]
            /\ UNCHANGED exec
    /\ UNCHANGED <<service, mergeVars, worldVars, explorerVars, flowVars, commandVars>>

\* What 'gh codespace create' can do: print the name, print nothing, or fail.
CreateOutcomes == {"created", "empty", "exists", "limit", "failed"}

\* The error raised inside the try block of createCodespace.
CreateFailure(outcome, command) ==
    CASE outcome = "empty" ->
           [stderr |-> "", message |-> "No codespace name returned from creation command"]
      [] outcome = "exists" ->
           ExitFailure(command, "error creating codespace: a codespace already exists for this branch")
      [] outcome = "limit" ->
           ExitFailure(command, "error creating codespace: HTTP 402: you have reached your spending limit")
      [] OTHER ->
           ExitFailure(command, "error creating codespace: HTTP 500")

\* The catch clause of createCodespace: the message of the error it throws.
createCodespaceCatch(error) ==
    LET errorMessage == OrElse(error.stderr, error.message)
    IN  IF Includes(errorMessage, "already exists")
        THEN "A codespace already exists for this repository and branch. Please use an existing codespace or delete it first."
        ELSE IF Includes(errorMessage, "billing") \/ Includes(errorMessage, "limit")
        THEN "Unable to create codespace. You may have reached your codespace limit or there may be billing issues."
        ELSE "Failed to create codespace: " \o error.message

\* createCodespace resolves: the explorer is refreshed and connectToCodespace
\* is awaited with the created codespace; or it throws, which is shown.
Created(outcome) ==
    /\ picker.stage = "creating"
    /\ IF outcome = "created"
       THEN /\ picker' = [picker EXCEPT !.stage = "connect", !.outcome = "created"]
            /\ treeDirty' = TRUE
            /\ UNCHANGED ui
       ELSE /\ picker' = [picker EXCEPT !.stage = "done", !.outcome = "error"]
            /\ ui' = Append(ui, Message("error", "Failed to create codespace: "
                        \o createCodespaceCatch(CreateFailure(outcome, exec[Len(exec)]))))
            /\ UNCHANGED treeDirty
    /\ UNCHANGED <<service, exec, poll, calls, shown, disposed, flow, log, remote,
                   mergeVars, worldVars, commandVars>>

InitCreate ==
    /\ fs = [dir |-> TRUE, exists |-> FALSE, content |-> <<>>]
    /\ merge = MergeIdle
    /\ env \in {GoodEnv, [GoodEnv EXCEPT !.ghInstalled = FALSE]}
    /\ backend = <<>>
    /\ ExplorerIdle
    /\ FlowIdle
    /\ CommandsIdle
    /\ ServiceIdle

NextCreate ==
    \/ \E w \in FlowWorlds, accept \in BOOLEAN : CreateInvoke(w, accept)
    \/ \E value \in RepoValues \cup BranchValues : PickerChangeValue(value)
    \/ PickerTimerFired
    \/ \E r \in Requests, answer \in Answers : PickerResponse(r, answer)
    \/ \E selected \in BOOLEAN, default \in BOOLEAN : PickerAccept(selected, default)
    \/ PickerHide
    \/ \E answer \in Answers : MachinesListed(answer)
    \/ \E picked \in BOOLEAN : MachinePicked(picked)
    \/ \E outcome \in CreateOutcomes : Created(outcome)

SpecCreate == InitCreate /\ [][NextCreate]_vars


\* The repository is of the form owner/name: one '/', with an owner before it
\* and a name after it, both of letters, digits, '-', '_' and '.'.
OwnerSlashName(repo) ==
    /\ SlashCount(repo) = 1
    /\ SubSeq(repo, 1, 1) # "/"
    /\ SubSeq(repo, Len(repo), Len(repo)) # "/"
    /\ \A k \in 1 .. Len(repo) : SubSeq(repo, k, k) \in NameChars \cup {"/", "."}

\* The command lines that carry the repository the create command holds.
RepositoryCommands ==
    {RecentBranchesCommand(picker.repo), SearchBranchesCommand(picker.repo),
     MachineTypesCommand(picker.repo)}
    \cup {CreateCommand(picker.repo, branch, machine) :
             branch \in BranchValues \cup {ListedBranch}, machine \in {"", ListedMachine}}

\* C33: a repository string that fails format validation is never sent to the
\* backend: create, list-branches and list-machine-types are not invoked with
\* a repository that is not of the form owner/name.
C33_RepositoryValidated ==
    (\E i \in DOMAIN exec : exec[i] \in RepositoryCommands) => OwnerSlashName(picker.repo)

\* C40: in the create-workspace repository and branch pickers, the result of
\* a list or search request is applied to the picker only if that request is
\* still the most recent one issued and the picker has not been hidden; a
\* response to a superseded request never overwrites the items of a newer
\* request, under any arrival order of responses.
C40_OnlyCurrentRequestApplied ==
    /\ [][(picker'.items # picker.items /\ picker'.stage = picker.stage)
            => /\ ~picker.isDisposed
               /\ picker'.items \in {NoItems} \cup
                      {i \in {picker'.items} : /\ i.from = picker.currentRequestId
                                               /\ i.stage = picker.stage}
               /\ \E r \in picker.inflight :
                     r.id = picker.currentRequestId /\ r.stage = picker.stage
                     /\ r \notin picker'.inflight]_vars
    /\ []((picker.items.from # 0 /\ picker.stage \in {"repo", "branch"}) =>
             /\ picker.items.stage = picker.stage
             /\ picker.items.from <= picker.currentRequestId)
    /\ [][(picker.items.from # 0 /\ picker'.stage = picker.stage /\ picker'.items.from # 0)
            => picker'.items.from >= picker.items.from]_vars
    /\ [][picker.isDisposed /\ picker'.stage = picker.stage
            => picker'.items = picker.items]_vars

\* The list shows the result of the second request of a quick pick while the
\* response to its first request, superseded, is still to arrive.
C40_Witness ==
    /\ picker.stage \in {"repo", "branch"}
    /\ picker.items.from = 2
    /\ picker.currentRequestId = 2
    /\ \E r \in picker.inflight : r.stage = picker.stage /\ r.id = 1

=============================================================================
